---- MODULE Spec2Model ----
(***************************************************************************)
(* Worktree discovery engine of gwq (internal/discovery).                  *)
(*                                                                         *)
(* Part 1: the lazy entry (GlobalWorktreeEntry, EnsureLoaded, IsLoaded).   *)
(* Part 2: the discovery strategies (serial, worker pool, pipeline, lazy). *)
(* Part 3: the multi-source aggregator (DiscoverAllWorktrees).             *)
(***************************************************************************)
EXTENDS Integers, Sequences, FiniteSets, TLC

(***************************************************************************)
(* Bounds of the model.                                                    *)
(***************************************************************************)
\* number of goroutines that call EnsureLoaded()/IsLoaded() on one entry
NumCallers == 2

Callers == 1..NumCallers

\* directories of the base directory's tree, the base directory itself included
NumDirs == 4

\* the largest DiscoverOptions.MaxWorkers tried
MaxWorkers == 2

\* the longest repository list of the repository index tried
MaxRepos == 2

\* the most digits of GWQ_DISCOVERY_WORKERS tried
MaxDigits == 2

\* the longest list of entries given to FilterGlobalWorktrees
MaxEntries == 2

\* the longest commit id tried in a HEAD file, in chunks of ten characters
MaxChunks == 5

\* the most lines of a git config file tried
MaxConfigLines == 3

Nodes == 1..NumDirs

(***************************************************************************)
(* The filesystem, as far as one path's extraction sees it.                *)
(*   wt_fast     .git pointer file; loose ref and origin url readable      *)
(*   wt_git      .git pointer file; fast path gives up, git answers        *)
(*   wt_noremote .git pointer file; no origin remote, git answers          *)
(*   wt_emptyref .git pointer file; the branch's loose ref file is empty,  *)
(*               so the files give no commit id and git fails              *)
(*   main        .git is a directory                                       *)
(*   main_unborn .git is a directory; no commit yet, "rev-parse HEAD" fails*)
(*   broken      .git pointer file; neither the files nor git answer       *)
(*   gone        the path does not exist                                   *)
(***************************************************************************)
FsKinds ==
    {"wt_fast", "wt_git", "wt_noremote", "wt_emptyref", "main", "main_unborn", "broken", "gone"}

NoErr == "nil"

\* the (repoURL, repoInfo, branch, commitHash, err) of an extraction
Details(u, i, b, c) == [err |-> NoErr, url |-> u, info |-> i, branch |-> b, commit |-> c]
Failure(e) == [err |-> e, url |-> "", info |-> "nil", branch |-> "", commit |-> ""]

\* readWorktreeDetailsFast: every step must succeed, else an error and no value
readWorktreeDetailsFast(k) ==
    CASE k = "wt_fast"     -> Details("url", "info", "feature", "c0ffee")
      [] k = "wt_git"      -> Failure("ref file not found")
      [] k = "wt_noremote" -> Failure("origin remote not found")
      [] k = "wt_emptyref" -> Details("url", "info", "feature", "")
      [] k \in {"main", "main_unborn"} -> Failure("read .git: is a directory")
      [] k = "broken"      -> Failure("invalid .git file format")
      [] OTHER             -> Failure("ENOENT")

\* extractWorktreeInfo: the git commands (url failure is tolerated, branch and
\* commit failures are wrapped with %w)
extractWorktreeInfo(k) ==
    CASE k \in {"wt_fast", "wt_git"} -> Details("url", "info", "feature", "c0ffee")
      [] k = "wt_noremote"           -> Details("", "nil", "feature", "c0ffee")
      [] k = "main"                  -> Details("url", "info", "main", "c0ffee")
      [] k \in {"broken", "wt_emptyref", "main_unborn"}
                                     -> Failure("failed to get current branch: exit 128")
      [] OTHER                       -> Failure("failed to get current branch: ENOENT")

\* extractMainRepoInfo: stat .git, must be a directory; git failures tolerated
extractMainRepoInfo(k) ==
    CASE k = "main"  -> Details("url", "info", "main", "c0ffee")
      [] k = "main_unborn" -> Details("url", "info", "unknown", "")
      [] k = "gone"  -> Failure("not a git repository: ENOENT")
      [] OTHER       -> Failure("not a main repository (has .git file, not directory)")

\* extractWorktreeInfoWithFallback: fast first; on any error the git commands alone
extractWorktreeInfoWithFallback(k) ==
    IF readWorktreeDetailsFast(k).err = NoErr
    THEN readWorktreeDetailsFast(k)
    ELSE extractWorktreeInfo(k)

(***************************************************************************)
(* Part 1 - state of one GlobalWorktreeEntry and of its callers.           *)
(* A path is the sequence of its components; <<>> is the empty string.     *)
(***************************************************************************)
VARIABLES
    entry,      \* the entry's fields: Path, IsMain, RepositoryURL, RepositoryInfo,
                \* Branch, CommitHash, loaded (atomic.Bool), loadErr
    onceDone,   \* loadOnce: the done flag of sync.Once
    onceMu,     \* loadOnce: the mutex of sync.Once, 0 = free, else the holder
    pc,         \* where each caller is inside EnsureLoaded()
    got,        \* each caller's local result of the extraction it runs
    ret,        \* what each caller's last EnsureLoaded() returned ("none" before)
    fs,         \* what the filesystem holds at the entry's path right now
    lazy,       \* the entry was built lazily (path and isMain only)
    loadCount,  \* history: how many times loadDetails was started
    loadResult, \* history: the result of the extraction loadDetails ran
    rets,       \* history: every value an EnsureLoaded() call has returned
    obs         \* the last IsLoaded() answer, with the state it was given in

lazyVars == <<entry, onceDone, onceMu, pc, got, ret, fs, lazy, loadCount, loadResult, rets, obs>>

VARIABLES
    tree,        \* the directories below the base directory: parent, kind of the .git
                 \* child, and what an extraction at that path meets
    baseKind,    \* the configured base directory: unset, missing, file or dir
    baseDir,     \* cfg.Worktree.BaseDir as written: a sequence of path components that
                 \* starts with "/" when absolute and with "~" when under the home directory
    opts,        \* DiscoverOptions.MaxWorkers
    env,         \* GWQ_DISCOVERY_WORKERS
    call,        \* the discovery call in progress
    out,         \* what each finished call returned
    nExtract,    \* history: extractions started by the call in progress
    started,     \* history: per call, whether WalkDir ran and how many goroutines it started
    mpc,         \* the calling goroutine's position in the call
    maxWorkers,  \* local maxWorkers of the call
    paths,       \* the candidate paths of the walk, in walk order
    submitted,   \* worker pool: jobs sent so far
    jobs,        \* worker pool: the jobs channel
    jobsClosed,
    results,     \* worker pool: the result slots
    workers,     \* the worker goroutines started by the call
    wpc,         \* each worker's position
    wcur,        \* each worker's local: job index, path or entry
    walked,      \* pipeline: candidates the walk has sent
    pathChan,    \* pipeline: the path channel
    pathClosed,
    resultChan,  \* pipeline: the result channel
    resultClosed,
    doneChan,    \* pipeline: doneChan is closed
    entries,     \* pipeline: the collector's list
    cpc,         \* pipeline: the collector's position
    warned       \* history: the per-item warnings written to os.Stderr, each with the
                 \* call that wrote it and the path it names

discCfg == <<tree, baseKind, baseDir, opts, env>>
callVars == <<call, out, nExtract, started, mpc, maxWorkers, paths>>
poolVars == <<submitted, jobs, jobsClosed, results>>
workVars == <<workers, wpc, wcur>>
pipeVars == <<walked, pathChan, pathClosed, resultChan, resultClosed, doneChan, entries, cpc>>
discVars == <<discCfg, callVars, poolVars, workVars, pipeVars, warned>>

VARIABLES
    ghqEnabled,         \* cfg.Ghq.Enabled
    ghqState,           \* the ghq binary: missing, list_fails ("ghq list -p" fails) or ok
    repos,              \* the lines of "ghq list -p"
    repoState,          \* what each listed repository path holds
    ghqRoots,           \* the roots of "ghq root --all"; none when that fails
    validWorktreesDir,  \* ValidateWorktreesDir(cfg.Ghq.WorktreesDir) == nil
    inRepo,             \* the base directory is r1's worktrees directory
    aggLazy,            \* opts.Lazy of the DiscoverAllWorktreesParallel call
    aggCall,            \* the aggregator call in progress
    aggOut              \* what each finished aggregator call returned

aggCfg == <<ghqEnabled, ghqState, repos, repoState, ghqRoots, validWorktreesDir, inRepo, aggLazy>>
aggVars == <<aggCfg, aggCall, aggOut>>

VARIABLES
    pin,    \* the arguments, and what the files hold, of one call of a function of the
            \* classifier or of the fast extractor
    pout    \* what that call returned; empty until it has returned

pureVars == <<pin, pout>>

vars == <<lazyVars, discVars, aggVars, pureVars>>

NoDetails == Failure("none")

LazyEntry(path, isMain) ==
    [Path |-> path, IsMain |-> isMain, RepositoryURL |-> "", RepositoryInfo |-> "nil",
     Branch |-> "", CommitHash |-> "", DisplayPath |-> <<>>, loaded |-> FALSE, loadErr |-> NoErr]

\* an entry as the eager constructors publish it (fields set, then loaded.Store(true))
EagerEntry(path, isMain, d) ==
    [Path |-> path, IsMain |-> isMain, RepositoryURL |-> d.url, RepositoryInfo |-> d.info,
     Branch |-> d.branch, CommitHash |-> d.commit, DisplayPath |-> <<>>, loaded |-> TRUE,
     loadErr |-> NoErr]

\* the four detail fields hold exactly what extraction d produced
HoldsDetails(e, d) ==
    /\ e.RepositoryURL = d.url
    /\ e.RepositoryInfo = d.info
    /\ e.Branch = d.branch
    /\ e.CommitHash = d.commit

LazyStart ==
    /\ fs \in FsKinds
    /\ lazy \in BOOLEAN
    /\ \/ /\ lazy
          /\ \E p \in {<<>>, <<"base", "wt">>}, m \in BOOLEAN : entry = LazyEntry(p, m)
          /\ loadResult = NoDetails
       \/ /\ ~lazy
          /\ \/ /\ extractWorktreeInfoWithFallback(fs).err = NoErr
                /\ entry = EagerEntry(<<"base", "wt">>, FALSE, extractWorktreeInfoWithFallback(fs))
                /\ loadResult = extractWorktreeInfoWithFallback(fs)
             \/ /\ extractMainRepoInfo(fs).err = NoErr
                /\ entry = EagerEntry(<<"base", "wt">>, TRUE, extractMainRepoInfo(fs))
                /\ loadResult = extractMainRepoInfo(fs)
    /\ onceDone = FALSE
    /\ onceMu = 0
    /\ pc = [c \in Callers |-> "idle"]
    /\ got = [c \in Callers |-> NoDetails]
    /\ ret = [c \in Callers |-> "none"]
    /\ loadCount = 0
    /\ rets = {}
    /\ obs = [asked |-> FALSE, answer |-> FALSE, complete |-> FALSE]

Goto(c, l) == pc' = [pc EXCEPT ![c] = l]

\* EnsureLoaded() is entered: loadOnce.Do begins
EnsureLoaded(c) ==
    /\ pc[c] = "idle"
    /\ Goto(c, "once_fast")
    /\ UNCHANGED <<entry, onceDone, onceMu, got, ret, fs, lazy, loadCount, loadResult, rets, obs>>
    /\ UNCHANGED <<discVars, aggVars, pureVars>>

\* sync.Once.Do: the lock-free check of the done flag
OnceFast(c) ==
    /\ pc[c] = "once_fast"
    /\ IF onceDone THEN Goto(c, "return") ELSE Goto(c, "once_lock")
    /\ UNCHANGED <<entry, onceDone, onceMu, got, ret, fs, lazy, loadCount, loadResult, rets, obs>>
    /\ UNCHANGED <<discVars, aggVars, pureVars>>

\* sync.Once.doSlow: o.m.Lock()
OnceLock(c) ==
    /\ pc[c] = "once_lock"
    /\ onceMu = 0
    /\ onceMu' = c
    /\ Goto(c, "once_slow")
    /\ UNCHANGED <<entry, onceDone, got, ret, fs, lazy, loadCount, loadResult, rets, obs>>
    /\ UNCHANGED <<discVars, aggVars, pureVars>>

\* a Once that takes the mutex but does not look at the done flag again
OnceSlowNoRecheck(c) ==
    /\ pc[c] = "once_slow"
    /\ Goto(c, "loadDetails")
    /\ loadCount' = loadCount + 1
    /\ UNCHANGED <<entry, onceDone, onceMu, got, ret, fs, lazy, loadResult, rets, obs>>
    /\ UNCHANGED <<discVars, aggVars, pureVars>>

\* sync.Once.doSlow: the second check under the mutex; f() starts when still not done
OnceSlow(c) ==
    /\ pc[c] = "once_slow"
    /\ IF onceDone
       THEN /\ Goto(c, "once_unlock")
            /\ UNCHANGED loadCount
       ELSE /\ Goto(c, "loadDetails")
            /\ loadCount' = loadCount + 1
    /\ UNCHANGED <<entry, onceDone, onceMu, got, ret, fs, lazy, loadResult, rets, obs>>
    /\ UNCHANGED <<discVars, aggVars, pureVars>>

\* a loadWorktreeDetails that returns the fast read's error instead of asking git
loadDetailsNoFallback(c) ==
    /\ pc[c] = "loadDetails"
    /\ IF entry.Path = <<>>
       THEN /\ got' = [got EXCEPT ![c] = Failure("path is required for loading")]
            /\ Goto(c, "store_err")
       ELSE IF entry.IsMain
       THEN /\ got' = [got EXCEPT ![c] = extractMainRepoInfo(fs)]
            /\ Goto(c, IF extractMainRepoInfo(fs).err = NoErr THEN "set_url" ELSE "store_err")
       ELSE /\ got' = [got EXCEPT ![c] = readWorktreeDetailsFast(fs)]
            /\ Goto(c, IF readWorktreeDetailsFast(fs).err = NoErr THEN "set_url" ELSE "store_err")
    /\ UNCHANGED <<entry, onceDone, onceMu, ret, fs, lazy, loadCount, loadResult, rets, obs>>
    /\ UNCHANGED <<discVars, aggVars, pureVars>>

\* loadDetails: the path check, then the extraction that fits the entry
\* (loadMainRepoDetails, or loadWorktreeDetails' fast read)
loadDetails(c) ==
    /\ pc[c] = "loadDetails"
    /\ IF entry.Path = <<>>
       THEN /\ got' = [got EXCEPT ![c] = Failure("path is required for loading")]
            /\ Goto(c, "store_err")
       ELSE IF entry.IsMain
       THEN /\ got' = [got EXCEPT ![c] = extractMainRepoInfo(fs)]
            /\ Goto(c, IF extractMainRepoInfo(fs).err = NoErr THEN "set_url" ELSE "store_err")
       ELSE /\ got' = [got EXCEPT ![c] = readWorktreeDetailsFast(fs)]
            /\ Goto(c, IF readWorktreeDetailsFast(fs).err = NoErr THEN "set_url" ELSE "fromGit")
    /\ UNCHANGED <<entry, onceDone, onceMu, ret, fs, lazy, loadCount, loadResult, rets, obs>>
    /\ UNCHANGED <<discVars, aggVars, pureVars>>

\* loadDetailsFromGit: the fallback, reading the filesystem as it is now
loadDetailsFromGit(c) ==
    /\ pc[c] = "fromGit"
    /\ got' = [got EXCEPT ![c] = extractWorktreeInfo(fs)]
    /\ Goto(c, IF extractWorktreeInfo(fs).err = NoErr THEN "set_url" ELSE "store_err")
    /\ UNCHANGED <<entry, onceDone, onceMu, ret, fs, lazy, loadCount, loadResult, rets, obs>>
    /\ UNCHANGED <<discVars, aggVars, pureVars>>

\* a load that raises the loaded flag before it assigns the fields
SetURLLoadedFirst(c) ==
    /\ pc[c] = "set_url"
    /\ entry' = [entry EXCEPT !.RepositoryURL = got[c].url, !.loaded = TRUE]
    /\ loadResult' = got[c]
    /\ Goto(c, "set_info")
    /\ UNCHANGED <<onceDone, onceMu, got, ret, fs, lazy, loadCount, rets, obs>>
    /\ UNCHANGED <<discVars, aggVars, pureVars>>

\* the assignments of a successful load, in source order
SetURL(c) ==
    /\ pc[c] = "set_url"
    /\ entry' = [entry EXCEPT !.RepositoryURL = got[c].url]
    /\ loadResult' = got[c]
    /\ Goto(c, "set_info")
    /\ UNCHANGED <<onceDone, onceMu, got, ret, fs, lazy, loadCount, rets, obs>>
    /\ UNCHANGED <<discVars, aggVars, pureVars>>

SetInfo(c) ==
    /\ pc[c] = "set_info"
    /\ entry' = [entry EXCEPT !.RepositoryInfo = got[c].info]
    /\ Goto(c, "set_branch")
    /\ UNCHANGED <<onceDone, onceMu, got, ret, fs, lazy, loadCount, loadResult, rets, obs>>
    /\ UNCHANGED <<discVars, aggVars, pureVars>>

SetBranch(c) ==
    /\ pc[c] = "set_branch"
    /\ entry' = [entry EXCEPT !.Branch = got[c].branch]
    /\ Goto(c, "set_commit")
    /\ UNCHANGED <<onceDone, onceMu, got, ret, fs, lazy, loadCount, loadResult, rets, obs>>
    /\ UNCHANGED <<discVars, aggVars, pureVars>>

SetCommit(c) ==
    /\ pc[c] = "set_commit"
    /\ entry' = [entry EXCEPT !.CommitHash = got[c].commit]
    /\ Goto(c, "set_loaded")
    /\ UNCHANGED <<onceDone, onceMu, got, ret, fs, lazy, loadCount, loadResult, rets, obs>>
    /\ UNCHANGED <<discVars, aggVars, pureVars>>

\* e.loaded.Store(true), the last statement of a successful load
SetLoaded(c) ==
    /\ pc[c] = "set_loaded"
    /\ entry' = [entry EXCEPT !.loaded = TRUE]
    /\ Goto(c, "store_err")
    /\ UNCHANGED <<onceDone, onceMu, got, ret, fs, lazy, loadCount, loadResult, rets, obs>>
    /\ UNCHANGED <<discVars, aggVars, pureVars>>

\* e.loadErr = e.loadDetails()
StoreErr(c) ==
    /\ pc[c] = "store_err"
    /\ entry' = [entry EXCEPT !.loadErr = got[c].err]
    /\ Goto(c, "once_done")
    /\ UNCHANGED <<onceDone, onceMu, got, ret, fs, lazy, loadCount, loadResult, rets, obs>>
    /\ UNCHANGED <<discVars, aggVars, pureVars>>

\* a guard that remembers a successful load only, so that a failed one is retried
OnceDoneOnSuccessOnly(c) ==
    /\ pc[c] = "once_done"
    /\ onceDone' = (entry.loadErr = NoErr)
    /\ Goto(c, "once_unlock")
    /\ UNCHANGED <<entry, onceMu, got, ret, fs, lazy, loadCount, loadResult, rets, obs>>
    /\ UNCHANGED <<discVars, aggVars, pureVars>>

\* sync.Once.doSlow: the deferred o.done.Store(1)
OnceDone(c) ==
    /\ pc[c] = "once_done"
    /\ onceDone' = TRUE
    /\ Goto(c, "once_unlock")
    /\ UNCHANGED <<entry, onceMu, got, ret, fs, lazy, loadCount, loadResult, rets, obs>>
    /\ UNCHANGED <<discVars, aggVars, pureVars>>

\* sync.Once.doSlow: the deferred o.m.Unlock()
OnceUnlock(c) ==
    /\ pc[c] = "once_unlock"
    /\ onceMu' = 0
    /\ Goto(c, "return")
    /\ UNCHANGED <<entry, onceDone, got, ret, fs, lazy, loadCount, loadResult, rets, obs>>
    /\ UNCHANGED <<discVars, aggVars, pureVars>>

\* return e.loadErr
Return(c) ==
    /\ pc[c] = "return"
    /\ ret' = [ret EXCEPT ![c] = entry.loadErr]
    /\ rets' = rets \cup {entry.loadErr}
    /\ Goto(c, "idle")
    /\ UNCHANGED <<entry, onceDone, onceMu, got, fs, lazy, loadCount, loadResult, obs>>
    /\ UNCHANGED <<discVars, aggVars, pureVars>>

\* a loader is between the first field assignment and loaded.Store(true)
Assigning == \E c \in Callers : pc[c] \in {"set_info", "set_branch", "set_commit", "set_loaded"}

\* IsLoaded(): one atomic load, by any goroutine, at any time
IsLoaded ==
    /\ obs' = [asked |-> TRUE, answer |-> entry.loaded,
               complete |-> (loadResult.err = NoErr /\ HoldsDetails(entry, loadResult))]
    /\ UNCHANGED <<entry, onceDone, onceMu, pc, got, ret, fs, lazy, loadCount, loadResult, rets>>
    /\ UNCHANGED <<discVars, aggVars, pureVars>>

\* the filesystem changes under the program
FsChange ==
    /\ \E k \in FsKinds \ {fs} : fs' = k
    /\ UNCHANGED <<entry, onceDone, onceMu, pc, got, ret, lazy, loadCount, loadResult, rets, obs>>
    /\ UNCHANGED <<discVars, aggVars, pureVars>>

(***************************************************************************)
(* Part 2 - the base directory's tree, the classifier and the walk.        *)
(***************************************************************************)
\* what os.Lstat / os.Stat / os.ReadFile find at <dir>/.git
GitKinds == {"absent", "lstat_error", "dir", "special",
             "file_gitdir", "file_other", "file_unreadable",
             "symlink_dangling", "symlink_dir",
             "symlink_file_gitdir", "symlink_file_other", "symlink_file_unreadable"}

Verdict(w, s) == [isWorktree |-> w, skipDir |-> s]

\* an isWorktreeDir without the block that follows a symbolic link
isWorktreeDirNoSymlinks(d) ==
    IF ~d.isDir THEN Verdict(FALSE, FALSE)
    ELSE IF d.name = ".git" THEN Verdict(FALSE, TRUE)
    ELSE IF d.git = "dir" THEN Verdict(FALSE, TRUE)
    ELSE IF d.git = "file_gitdir" THEN Verdict(TRUE, TRUE)
    ELSE Verdict(FALSE, FALSE)

\* an isWorktreeDir that prunes when os.Lstat fails for another reason than "not found"
isWorktreeDirLstatErrorPrunes(d) ==
    IF ~d.isDir THEN Verdict(FALSE, FALSE)
    ELSE IF d.name = ".git" THEN Verdict(FALSE, TRUE)
    ELSE IF d.git = "absent" THEN Verdict(FALSE, FALSE)
    ELSE IF d.git \in {"lstat_error", "dir", "symlink_dangling", "symlink_dir"} THEN Verdict(FALSE, TRUE)
    ELSE IF d.git \in {"symlink_file_gitdir", "file_gitdir"} THEN Verdict(TRUE, TRUE)
    ELSE Verdict(FALSE, FALSE)

\* isWorktreeDir(path, d): d is the directory entry, git the kind of its .git child
isWorktreeDir(d) ==
    IF ~d.isDir THEN Verdict(FALSE, FALSE)
    ELSE IF d.name = ".git" THEN Verdict(FALSE, TRUE)
    ELSE IF d.git \in {"absent", "lstat_error"} THEN Verdict(FALSE, FALSE)
    ELSE IF d.git = "dir" THEN Verdict(FALSE, TRUE)
    ELSE IF d.git \in {"symlink_dangling", "symlink_dir"} THEN Verdict(FALSE, TRUE)
    ELSE IF d.git = "symlink_file_gitdir" THEN Verdict(TRUE, TRUE)
    ELSE IF d.git \in {"symlink_file_other", "symlink_file_unreadable"} THEN Verdict(FALSE, FALSE)
    ELSE IF d.git = "special" THEN Verdict(FALSE, FALSE)
    ELSE IF d.git = "file_unreadable" THEN Verdict(FALSE, FALSE)
    ELSE IF d.git = "file_gitdir" THEN Verdict(TRUE, TRUE)
    ELSE Verdict(FALSE, FALSE)

\* the fs.DirEntry the walk hands to the callback for directory n
DirEntryOf(n) == [isDir |-> TRUE, name |-> ToString(n), git |-> tree[n].git]

\* os.UserHomeDir() and the working directory of the process
Home == <<"/", "home">>
Cwd == <<"/", "cwd">>

\* filepath.IsAbs
IsAbs(p) == p # <<>> /\ Head(p) = "/"

\* an ExpandPath without its step 3: a relative path stays relative
ExpandPathNoAbs(p) ==
    IF p = <<>> THEN <<>>
    ELSE IF Head(p) = "~" THEN Home \o Tail(p)
    ELSE p

\* utils.ExpandPath: "" stays "", "~" becomes the home directory, and a path that is
\* not absolute then is joined to the working directory (filepath.Abs)
ExpandPath(p) ==
    IF p = <<>> THEN <<>>
    ELSE LET t == IF Head(p) = "~" THEN Home \o Tail(p) ELSE p
         IN IF IsAbs(t) THEN t ELSE Cwd \o t

\* the expanded base directory: utils.ExpandPath(baseDir)
BasePath == ExpandPath(baseDir)

RECURSIVE PathOf(_)
\* the absolute path of directory n: filepath.Join of the base directory and the names
PathOf(n) == IF n = 1 THEN BasePath ELSE Append(PathOf(tree[n].parent), ToString(n))

\* filepath.Rel(expandedDir, path)
RelPath(n) == IF n = 1 THEN <<".">> ELSE SubSeq(PathOf(n), Len(BasePath) + 1, Len(PathOf(n)))

RECURSIVE SortedSeq(_)
SortedSeq(S) ==
    IF S = {} THEN <<>>
    ELSE LET m == CHOOSE x \in S : \A y \in S : x <= y
         IN <<m>> \o SortedSeq(S \ {m})

\* os.ReadDir inside filepath.WalkDir: the children of n, sorted by name
ChildrenOf(n) == SortedSeq({m \in Nodes : tree[m].parent = n})

RECURSIVE collectFrom(_), collectEach(_), collectFromDescending(_)
\* a callback that records a worktree and returns nil, so that the walk goes on below it
collectFromDescending(n) ==
    LET v == isWorktreeDir(DirEntryOf(n))
    IN IF ~v.isWorktree
       THEN IF v.skipDir THEN <<>> ELSE collectEach(ChildrenOf(n))
       ELSE <<n>> \o collectEach(ChildrenOf(n))

\* the callback of collectWorktreePaths on directory n, and WalkDir's descent
collectFrom(n) ==
    LET v == isWorktreeDir(DirEntryOf(n))
    IN IF ~v.isWorktree
       THEN IF v.skipDir THEN <<>> ELSE collectEach(ChildrenOf(n))
       ELSE <<n>>

collectEach(s) == IF s = <<>> THEN <<>> ELSE collectFrom(Head(s)) \o collectEach(Tail(s))

\* collectWorktreePaths(baseDir): the candidates, in walk order
collectWorktreePaths == collectFrom(1)

\* the entry extractWorktreeInfoWithFallback builds for directory n
ExtractedEntry(n) == EagerEntry(PathOf(n), FALSE, extractWorktreeInfoWithFallback(tree[n].x))

\* os.IsNotExist(err): true of the error of a failed system call itself; it does not look
\* inside an error built by fmt.Errorf, with or without %w
IsNotExist(e) == e = "ENOENT"

\* "if !os.IsNotExist(err) { fmt.Fprintf(os.Stderr, "[gwq] warning: ... %s ...", path, err) }"
Warning(c, p, e) == IF e = NoErr \/ IsNotExist(e) THEN {} ELSE {[call |-> c, path |-> p]}

RECURSIVE serialWarnings(_)
\* the warnings of the callback of DiscoverGlobalWorktrees on directory n and below
serialWarnings(n) ==
    LET v == isWorktreeDir(DirEntryOf(n))
    IN IF ~v.isWorktree
       THEN IF v.skipDir THEN {}
            ELSE UNION {serialWarnings(ChildrenOf(n)[i]) : i \in DOMAIN ChildrenOf(n)}
       ELSE Warning("serial", PathOf(n), extractWorktreeInfoWithFallback(tree[n].x).err)

RECURSIVE serialFrom(_), serialEach(_)

\* a serial walk that keeps descending below a worktree whose extraction failed
SerialOnErrorDescend(n) == serialEach(ChildrenOf(n))

\* DiscoverGlobalWorktrees, callback: extraction failed, return filepath.SkipDir
SerialOnError(n) == <<>>

\* the callback of DiscoverGlobalWorktrees on directory n, and WalkDir's descent
serialFrom(n) ==
    LET v == isWorktreeDir(DirEntryOf(n))
    IN IF ~v.isWorktree
       THEN IF v.skipDir THEN <<>> ELSE serialEach(ChildrenOf(n))
       ELSE IF extractWorktreeInfoWithFallback(tree[n].x).err # NoErr
       THEN SerialOnError(n)
       ELSE <<[ExtractedEntry(n) EXCEPT !.DisplayPath = RelPath(n)]>>

serialEach(s) == IF s = <<>> THEN <<>> ELSE serialFrom(Head(s)) \o serialEach(Tail(s))

\* an expandBaseDir that reports a missing base directory as an error
expandBaseDirMissingFails(b) ==
    CASE b = "unset"   -> [dir |-> "", err |-> "base directory not configured"]
      [] b = "missing" -> [dir |-> "", err |-> "failed to stat base directory"]
      [] b = "file"    -> [dir |-> "", err |-> "base directory path is not a directory"]
      [] OTHER         -> [dir |-> "base", err |-> NoErr]

\* an expandBaseDir that takes a base path that is a regular file for a missing one
expandBaseDirFileIsMissing(b) ==
    CASE b = "unset"   -> [dir |-> "", err |-> "base directory not configured"]
      [] b = "missing" -> [dir |-> "", err |-> NoErr]
      [] b = "file"    -> [dir |-> "", err |-> NoErr]
      [] OTHER         -> [dir |-> "base", err |-> NoErr]

\* expandBaseDir: ("", nil) for a missing directory, an error for a file
expandBaseDir(b) ==
    CASE b = "unset"   -> [dir |-> "", err |-> "base directory not configured"]
      [] b = "missing" -> [dir |-> "", err |-> NoErr]
      [] b = "file"    -> [dir |-> "", err |-> "base directory path is not a directory"]
      [] OTHER         -> [dir |-> "base", err |-> NoErr]

\* runtime.NumCPU() of the machine the model runs on
NumCPU == 2

Min(a, b) == IF a < b THEN a ELSE b

\* getMaxWorkers(opts): e is GWQ_DISCOVERY_WORKERS as strconv.Atoi sees it
\* (kind unset, text or int, and the number n)
\* a getMaxWorkers that takes any integer of the environment, positive or not
getMaxWorkersAnyEnv(cpu, o, e) ==
    IF e.kind = "int" THEN e.n
    ELSE IF o > 0 THEN o
    ELSE Min(cpu, 4)

\* a getMaxWorkers in which a positive opts.MaxWorkers wins over the environment
getMaxWorkersOptsFirst(cpu, o, e) ==
    IF o > 0 THEN o
    ELSE IF e.kind = "int" /\ e.n > 0 THEN e.n
    ELSE Min(cpu, 4)

\* getMaxWorkers on a machine with cpu processors; o is opts.MaxWorkers, 0 for nil opts
getMaxWorkersOn(cpu, o, e) ==
    LET dflt == Min(cpu, 4)
        fromOpts == IF o > 0 THEN o ELSE dflt
    IN IF e.kind = "int" /\ e.n > 0 THEN e.n ELSE fromOpts

getMaxWorkers(o, e) == getMaxWorkersOn(NumCPU, o, e)

\* a returned (entries, err) pair
Returned(es, e) == [entries |-> es, err |-> e]
Pending == Returned(<<>>, "pending")

\* a lazy discovery that fills the entries while it builds them
EagerEntriesOf(ps) == [i \in 1..Len(ps) |-> ExtractedEntry(ps[i])]

\* DiscoverGlobalWorktreesLazy: the walk, then one entry per path, path and isMain only
LazyEntriesOf(ps) == [i \in 1..Len(ps) |-> LazyEntry(PathOf(ps[i]), FALSE)]

DiscoverLazyResult ==
    IF expandBaseDir(baseKind).err # NoErr THEN Returned(<<>>, expandBaseDir(baseKind).err)
    ELSE IF expandBaseDir(baseKind).dir = "" THEN Returned(<<>>, NoErr)
    ELSE Returned(LazyEntriesOf(collectWorktreePaths), NoErr)

\* the calls made on one filesystem snapshot, in this order
NextCall(c) ==
    CASE c = "serial"   -> "pool"
      [] c = "pool"     -> "pipeline"
      [] c = "pipeline" -> "lazy"
      [] c = "lazy"     -> "parlazy"
      [] OTHER          -> "done"

Finish(r) ==
    /\ out' = [out EXCEPT ![call] = r]
    /\ call' = NextCall(call)
    /\ mpc' = "idle"

\* the call in progress ran filepath.WalkDir (w) and started n goroutines
Started(w, n) == started' = [started EXCEPT ![call] = [walk |-> w, goroutines |-> n]]

\* DiscoverGlobalWorktrees(baseDir)
DiscoverGlobalWorktrees ==
    /\ call = "serial"
    /\ IF expandBaseDir(baseKind).err # NoErr
       THEN Finish(Returned(<<>>, expandBaseDir(baseKind).err)) /\ UNCHANGED nExtract
                                                                 /\ Started(FALSE, 0)
       ELSE IF expandBaseDir(baseKind).dir = ""
       THEN Finish(Returned(<<>>, NoErr)) /\ UNCHANGED nExtract /\ Started(FALSE, 0)
       ELSE /\ Finish(Returned(serialFrom(1), NoErr))
            /\ nExtract' = Len(collectWorktreePaths)
            /\ Started(TRUE, 0)
    /\ warned' = IF expandBaseDir(baseKind).err = NoErr /\ expandBaseDir(baseKind).dir # ""
                 THEN warned \cup serialWarnings(1) ELSE warned
    /\ UNCHANGED <<discCfg, maxWorkers, paths, poolVars, workVars, pipeVars>>
    /\ UNCHANGED <<lazyVars, aggVars, pureVars>>

\* DiscoverGlobalWorktreesLazy(baseDir)
DiscoverGlobalWorktreesLazy ==
    /\ call = "lazy"
    /\ Finish(DiscoverLazyResult)
    /\ Started(expandBaseDir(baseKind).dir # "", 0)
    /\ nExtract' = 0
    /\ UNCHANGED <<discCfg, maxWorkers, paths, poolVars, workVars, pipeVars>>
    /\ UNCHANGED <<warned, lazyVars, aggVars, pureVars>>

(***************************************************************************)
(* Part 2 - the worker pool (DiscoverGlobalWorktreesParallel).             *)
(***************************************************************************)
\* one goroutine per candidate path instead of a fixed pool
WorkerPerPath(n, ps) == 1..Len(ps)

\* "for range maxWorkers { wg.Add(1); go func() {...}() }": the goroutines started
StartWorkers(n, ps) == 1..n

Spawn(n, ps) ==
    /\ workers' = StartWorkers(n, ps)
    /\ wpc' = [w \in StartWorkers(n, ps) |-> "recv"]
    /\ wcur' = [w \in StartWorkers(n, ps) |-> [idx |-> 0, entry |-> <<>>]]

NoWorkers ==
    /\ workers' = {}
    /\ wpc' = <<>>
    /\ wcur' = <<>>

\* DiscoverGlobalWorktreesParallel(baseDir, opts) up to the start of the workers;
\* the call named parlazy passes opts.Lazy = true
DiscoverGlobalWorktreesParallel ==
    /\ call \in {"pool", "parlazy"}
    /\ mpc = "idle"
    /\ nExtract' = 0
    /\ IF call = "parlazy"
       THEN /\ Finish(DiscoverLazyResult)
            /\ Started(expandBaseDir(baseKind).dir # "", 0)
            /\ UNCHANGED <<maxWorkers, paths, poolVars, workVars>>
       ELSE IF expandBaseDir(baseKind).err # NoErr
       THEN /\ Finish(Returned(<<>>, expandBaseDir(baseKind).err))
            /\ Started(FALSE, 0)
            /\ UNCHANGED <<maxWorkers, paths, poolVars, workVars>>
       ELSE IF expandBaseDir(baseKind).dir = "" \/ Len(collectWorktreePaths) = 0
       THEN /\ Finish(Returned(<<>>, NoErr))
            /\ Started(expandBaseDir(baseKind).dir # "", 0)
            /\ UNCHANGED <<maxWorkers, paths, poolVars, workVars>>
       ELSE /\ paths' = collectWorktreePaths
            /\ maxWorkers' = getMaxWorkers(opts, env)
            /\ jobs' = <<>>
            /\ jobsClosed' = FALSE
            /\ results' = [i \in 1..Len(collectWorktreePaths) |-> <<>>]
            /\ submitted' = 0
            /\ Spawn(getMaxWorkers(opts, env), collectWorktreePaths)
            /\ Started(TRUE, Cardinality(StartWorkers(getMaxWorkers(opts, env), collectWorktreePaths)))
            /\ mpc' = "submit"
            /\ UNCHANGED <<call, out>>
    /\ UNCHANGED <<discCfg, pipeVars>>
    /\ UNCHANGED <<warned, lazyVars, aggVars, pureVars>>

\* "for i := range paths { jobs <- i }": the channel holds len(paths), no send blocks
PoolSubmit ==
    /\ call = "pool" /\ mpc = "submit"
    /\ submitted < Len(paths)
    /\ jobs' = Append(jobs, submitted + 1)
    /\ submitted' = submitted + 1
    /\ UNCHANGED <<discCfg, callVars, jobsClosed, results, workVars, pipeVars>>
    /\ UNCHANGED <<warned, lazyVars, aggVars, pureVars>>

\* close(jobs)
PoolClose ==
    /\ call = "pool" /\ mpc = "submit"
    /\ submitted = Len(paths)
    /\ jobsClosed' = TRUE
    /\ mpc' = "wait"
    /\ UNCHANGED <<discCfg, call, out, nExtract, started, maxWorkers, paths, submitted, jobs, results,
                   workVars, pipeVars>>
    /\ UNCHANGED <<warned, lazyVars, aggVars, pureVars>>

\* "for idx := range jobs": a worker receives a job index and starts the extraction
PoolRecv(w) ==
    /\ call = "pool" /\ w \in workers /\ wpc[w] = "recv"
    /\ jobs # <<>>
    /\ wcur' = [wcur EXCEPT ![w].idx = Head(jobs)]
    /\ jobs' = Tail(jobs)
    /\ wpc' = [wpc EXCEPT ![w] = "extract"]
    /\ nExtract' = nExtract + 1
    /\ UNCHANGED <<discCfg, call, out, started, mpc, maxWorkers, paths, submitted, jobsClosed, results,
                   workers, pipeVars>>
    /\ UNCHANGED <<warned, lazyVars, aggVars, pureVars>>

\* a worker that gives up at the first failed extraction
PoolAfterFailureStop == "exited"

\* the worker's "continue" after a failed extraction
PoolAfterFailure == "recv"

\* extractWorktreeInfoWithFallback(paths[idx]) returns: the slot is written on success
PoolExtract(w) ==
    /\ call = "pool" /\ w \in workers /\ wpc[w] = "extract"
    /\ LET e == ExtractedEntry(paths[wcur[w].idx])
       IN IF extractWorktreeInfoWithFallback(tree[paths[wcur[w].idx]].x).err # NoErr
          THEN /\ wpc' = [wpc EXCEPT ![w] = PoolAfterFailure]
               /\ UNCHANGED results
          ELSE /\ wpc' = [wpc EXCEPT ![w] = "recv"]
               /\ results' = [results EXCEPT ![wcur[w].idx] = <<e>>]
    /\ wcur' = [wcur EXCEPT ![w].idx = 0]
    /\ warned' = warned \cup Warning("pool", PathOf(paths[wcur[w].idx]),
                                      extractWorktreeInfoWithFallback(tree[paths[wcur[w].idx]].x).err)
    /\ UNCHANGED <<discCfg, callVars, submitted, jobs, jobsClosed, workers, pipeVars>>
    /\ UNCHANGED <<lazyVars, aggVars, pureVars>>

\* the range over the closed, drained channel ends: wg.Done()
PoolWorkerExit(w) ==
    /\ call = "pool" /\ w \in workers /\ wpc[w] = "recv"
    /\ jobs = <<>> /\ jobsClosed
    /\ wpc' = [wpc EXCEPT ![w] = "exited"]
    /\ UNCHANGED <<discCfg, callVars, poolVars, workers, wcur, pipeVars>>
    /\ UNCHANGED <<warned, lazyVars, aggVars, pureVars>>

RECURSIVE filterNilEntries(_)
\* filterNilEntries: the non-nil slots, in slot order
filterNilEntries(rs) == IF rs = <<>> THEN <<>> ELSE Head(rs) \o filterNilEntries(Tail(rs))

\* a worker pool that reads the slots once the jobs are submitted, without wg.Wait()
PoolReturnNoWait ==
    /\ call = "pool" /\ mpc = "wait"
    /\ Finish(Returned(filterNilEntries(results), NoErr))
    /\ NoWorkers
    /\ UNCHANGED <<discCfg, nExtract, started, maxWorkers, paths, poolVars, pipeVars>>
    /\ UNCHANGED <<warned, lazyVars, aggVars, pureVars>>

\* wg.Wait() returns, the slots are filtered and returned
PoolReturn ==
    /\ call = "pool" /\ mpc = "wait"
    /\ \A w \in workers : wpc[w] = "exited"
    /\ Finish(Returned(filterNilEntries(results), NoErr))
    /\ NoWorkers
    /\ UNCHANGED <<discCfg, nExtract, started, maxWorkers, paths, poolVars, pipeVars>>
    /\ UNCHANGED <<warned, lazyVars, aggVars, pureVars>>

(***************************************************************************)
(* Part 2 - the pipeline (DiscoverGlobalWorktreesPipeline).                *)
(***************************************************************************)
\* make(chan ..., maxWorkers*2)
ChanCap(n) == n * 2

\* DiscoverGlobalWorktreesPipeline up to the start of the walk: channels, workers, collector
DiscoverGlobalWorktreesPipeline ==
    /\ call = "pipeline" /\ mpc = "idle"
    /\ nExtract' = 0
    /\ IF expandBaseDir(baseKind).err # NoErr
       THEN /\ Finish(Returned(<<>>, expandBaseDir(baseKind).err))
            /\ Started(FALSE, 0)
            /\ UNCHANGED <<maxWorkers, paths, workVars, pipeVars>>
       ELSE IF expandBaseDir(baseKind).dir = ""
       THEN /\ Finish(Returned(<<>>, NoErr))
            /\ Started(FALSE, 0)
            /\ UNCHANGED <<maxWorkers, paths, workVars, pipeVars>>
       ELSE /\ maxWorkers' = getMaxWorkers(opts, env)
            /\ paths' = collectWorktreePaths
            /\ walked' = 0
            /\ pathChan' = <<>> /\ pathClosed' = FALSE
            /\ resultChan' = <<>> /\ resultClosed' = FALSE
            /\ doneChan' = FALSE
            /\ entries' = <<>>
            /\ cpc' = "recv"
            /\ Spawn(getMaxWorkers(opts, env), <<>>)
            /\ Started(TRUE, Cardinality(StartWorkers(getMaxWorkers(opts, env), <<>>)) + 1)
            /\ mpc' = "walk"
            /\ UNCHANGED <<call, out>>
    /\ UNCHANGED <<discCfg, poolVars>>
    /\ UNCHANGED <<warned, lazyVars, aggVars, pureVars>>

\* the walk reaches its next worktree: "pathChan <- path", blocking while the channel is full
PipeWalkSend ==
    /\ call = "pipeline" /\ mpc = "walk"
    /\ walked < Len(paths)
    /\ Len(pathChan) < ChanCap(maxWorkers)
    /\ pathChan' = Append(pathChan, paths[walked + 1])
    /\ walked' = walked + 1
    /\ UNCHANGED <<discCfg, callVars, poolVars, workVars, pathClosed, resultChan, resultClosed,
                   doneChan, entries, cpc>>
    /\ UNCHANGED <<warned, lazyVars, aggVars, pureVars>>

\* WalkDir returns: close(pathChan)
PipeWalkEnd ==
    /\ call = "pipeline" /\ mpc = "walk"
    /\ walked = Len(paths)
    /\ pathClosed' = TRUE
    /\ mpc' = "wait"
    /\ UNCHANGED <<discCfg, call, out, nExtract, started, maxWorkers, paths, poolVars, workVars, walked,
                   pathChan, resultChan, resultClosed, doneChan, entries, cpc>>
    /\ UNCHANGED <<warned, lazyVars, aggVars, pureVars>>

\* "for path := range pathChan": a worker receives a path and starts the extraction
PipeRecv(w) ==
    /\ call = "pipeline" /\ w \in workers /\ wpc[w] = "recv"
    /\ pathChan # <<>>
    /\ wcur' = [wcur EXCEPT ![w].idx = Head(pathChan)]
    /\ pathChan' = Tail(pathChan)
    /\ wpc' = [wpc EXCEPT ![w] = "extract"]
    /\ nExtract' = nExtract + 1
    /\ UNCHANGED <<discCfg, call, out, started, mpc, maxWorkers, paths, poolVars, workers, walked,
                   pathClosed, resultChan, resultClosed, doneChan, entries, cpc>>
    /\ UNCHANGED <<warned, lazyVars, aggVars, pureVars>>

\* extractWorktreeInfoWithFallback(path) returns: "continue" on error, else on to the send
PipeExtract(w) ==
    /\ call = "pipeline" /\ w \in workers /\ wpc[w] = "extract"
    /\ IF extractWorktreeInfoWithFallback(tree[wcur[w].idx].x).err # NoErr
       THEN /\ wpc' = [wpc EXCEPT ![w] = "recv"]
            /\ wcur' = [wcur EXCEPT ![w].idx = 0]
       ELSE /\ wpc' = [wpc EXCEPT ![w] = "send"]
            /\ wcur' = [wcur EXCEPT ![w] = [idx |-> 0, entry |-> <<ExtractedEntry(wcur[w].idx)>>]]
    /\ warned' = warned \cup Warning("pipeline", PathOf(wcur[w].idx),
                                      extractWorktreeInfoWithFallback(tree[wcur[w].idx].x).err)
    /\ UNCHANGED <<discCfg, callVars, poolVars, workers, pipeVars>>
    /\ UNCHANGED <<lazyVars, aggVars, pureVars>>

\* "resultChan <- entry", blocking while the channel is full
PipeSend(w) ==
    /\ call = "pipeline" /\ w \in workers /\ wpc[w] = "send"
    /\ Len(resultChan) < ChanCap(maxWorkers)
    /\ resultChan' = resultChan \o wcur[w].entry
    /\ wcur' = [wcur EXCEPT ![w].entry = <<>>]
    /\ wpc' = [wpc EXCEPT ![w] = "recv"]
    /\ UNCHANGED <<discCfg, callVars, poolVars, workers, walked, pathChan, pathClosed,
                   resultClosed, doneChan, entries, cpc>>
    /\ UNCHANGED <<warned, lazyVars, aggVars, pureVars>>

\* the range over the closed, drained path channel ends: wg.Done()
PipeWorkerExit(w) ==
    /\ call = "pipeline" /\ w \in workers /\ wpc[w] = "recv"
    /\ pathChan = <<>> /\ pathClosed
    /\ wpc' = [wpc EXCEPT ![w] = "exited"]
    /\ UNCHANGED <<discCfg, callVars, poolVars, workers, wcur, pipeVars>>
    /\ UNCHANGED <<warned, lazyVars, aggVars, pureVars>>

\* the collector: "for entry := range resultChan { entries = append(entries, entry) }"
Collect ==
    /\ call = "pipeline" /\ cpc = "recv"
    /\ resultChan # <<>>
    /\ entries' = Append(entries, Head(resultChan))
    /\ resultChan' = Tail(resultChan)
    /\ UNCHANGED <<discCfg, callVars, poolVars, workVars, walked, pathChan, pathClosed,
                   resultClosed, doneChan, cpc>>
    /\ UNCHANGED <<warned, lazyVars, aggVars, pureVars>>

\* the collector's range ends: close(doneChan)
CollectExit ==
    /\ call = "pipeline" /\ cpc = "recv"
    /\ resultChan = <<>> /\ resultClosed
    /\ doneChan' = TRUE
    /\ cpc' = "exited"
    /\ UNCHANGED <<discCfg, callVars, poolVars, workVars, walked, pathChan, pathClosed,
                   resultChan, resultClosed, entries>>
    /\ UNCHANGED <<warned, lazyVars, aggVars, pureVars>>

\* a close(resultChan) that does not wait for the workers
PipeWaitNoWait ==
    /\ call = "pipeline" /\ mpc = "wait"
    /\ resultClosed' = TRUE
    /\ mpc' = "drain"
    /\ UNCHANGED <<discCfg, call, out, nExtract, started, maxWorkers, paths, poolVars, workVars, walked,
                   pathChan, pathClosed, resultChan, doneChan, entries, cpc>>
    /\ UNCHANGED <<warned, lazyVars, aggVars, pureVars>>

\* wg.Wait() returns: close(resultChan)
PipeWait ==
    /\ call = "pipeline" /\ mpc = "wait"
    /\ \A w \in workers : wpc[w] = "exited"
    /\ resultClosed' = TRUE
    /\ mpc' = "drain"
    /\ UNCHANGED <<discCfg, call, out, nExtract, started, maxWorkers, paths, poolVars, workVars, walked,
                   pathChan, pathClosed, resultChan, doneChan, entries, cpc>>
    /\ UNCHANGED <<warned, lazyVars, aggVars, pureVars>>

\* "<-doneChan", then the walk's error (the callback returns none) or the entries
PipeReturn ==
    /\ call = "pipeline" /\ mpc = "drain"
    /\ doneChan
    /\ Finish(Returned(entries, NoErr))
    /\ NoWorkers
    /\ UNCHANGED <<discCfg, nExtract, started, maxWorkers, paths, poolVars, pipeVars>>
    /\ UNCHANGED <<warned, lazyVars, aggVars, pureVars>>

(***************************************************************************)
(* Part 3 - the repository-index source and the aggregator.                *)
(***************************************************************************)
\* the repositories "ghq list -p" may name, all under one ghq root
RepoIds == {"r1", "r2"}
GhqRoot == <<"/", "ghq">>
RepoPath(r) == GhqRoot \o <<r>>

Last(s) == s[Len(s)]

IsPrefix(a, b) == Len(a) <= Len(b) /\ SubSeq(b, 1, Len(a)) = a

RECURSIVE calculateGhqDisplayPath(_, _)
\* calculateGhqDisplayPath: relative to the first root the path lies strictly under
calculateGhqDisplayPath(path, roots) ==
    IF roots = <<>> THEN <<>>
    ELSE IF IsPrefix(Head(roots), path) /\ Head(roots) # path
    THEN SubSeq(path, Len(Head(roots)) + 1, Len(path))
    ELSE calculateGhqDisplayPath(path, Tail(roots))

\* fallbackMainDisplayPath
fallbackMainDisplayPath(m) ==
    IF m.RepositoryInfo # "nil" THEN <<"owner/repo">>
    ELSE IF m.Path = <<>> THEN <<>>
    ELSE <<Last(m.Path)>>

\* buildWorktreeDisplayPath: "<main display path>:<worktree directory name>"
buildWorktreeDisplayPath(m, wtPath) ==
    LET base == IF m.DisplayPath = <<>> THEN fallbackMainDisplayPath(m) ELSE m.DisplayPath
    IN IF base = <<>> THEN <<Last(wtPath)>> ELSE base \o <<":", Last(wtPath)>>

\* isWorktreeDirectory: os.ReadFile(<path>/.git) succeeds and starts with "gitdir:"
isWorktreeDirectory(n) == tree[n].git \in {"file_gitdir", "symlink_file_gitdir"}

RECURSIVE worktreesAmong(_)
\* the loop of discoverWorktreesInDir over the sorted directory entries
worktreesAmong(s) ==
    IF s = <<>> THEN <<>>
    ELSE (IF isWorktreeDirectory(Head(s))
             /\ extractWorktreeInfoWithFallback(tree[Head(s)].x).err = NoErr
          THEN <<ExtractedEntry(Head(s))>>
          ELSE <<>>) \o worktreesAmong(Tail(s))

\* discoverWorktreesInDir(<repo>/<worktreesDir>): os.ReadDir, then the worktrees directly
\* below; r1's worktrees directory is the directory the tree describes when inRepo holds
discoverWorktreesInDir(r) ==
    IF r = "r1" /\ inRepo /\ baseKind = "dir" THEN Returned(worktreesAmong(ChildrenOf(1)), NoErr)
    ELSE IF r = "r1" /\ inRepo /\ baseKind = "file" THEN Returned(<<>>, "ENOTDIR")
    ELSE Returned(<<>>, "ENOENT")

\* extractRepoAndWorktrees, and the body of the loop of discoverGhqWorktrees: the main
\* repository's entry, then the entries of its worktrees directory
extractRepoAndWorktrees(r) ==
    LET d == extractMainRepoInfo(repoState[r])
        m == [EagerEntry(RepoPath(r), TRUE, d)
                 EXCEPT !.DisplayPath = calculateGhqDisplayPath(RepoPath(r), ghqRoots)]
        w == discoverWorktreesInDir(r)
    IN IF d.err # NoErr THEN <<>>
       ELSE IF ~validWorktreesDir \/ w.err # NoErr THEN <<m>>
       ELSE <<m>> \o [i \in DOMAIN w.entries |->
                        [w.entries[i] EXCEPT
                            !.DisplayPath = buildWorktreeDisplayPath(m, w.entries[i].Path)]]

RECURSIVE entriesOfRepos(_)
entriesOfRepos(rs) ==
    IF rs = <<>> THEN <<>> ELSE extractRepoAndWorktrees(Head(rs)) \o entriesOfRepos(Tail(rs))

\* the output of "ghq list -p" split at "\n": one full path per repository (a line is
\* written here as the repository's name), and "" after the last newline
GhqListOutput == repos \o <<"">>

RECURSIVE parseLines(_)
\* parseLines: the lines that are not empty once trimmed
parseLines(lines) ==
    IF lines = <<>> THEN <<>>
    ELSE (IF Head(lines) = "" THEN <<>> ELSE <<Head(lines)>>) \o parseLines(Tail(lines))

\* Client.ListRepositories, when the command succeeds
ListRepositories == parseLines(GhqListOutput)

\* discoverGhqWorktrees(worktreesDir)
discoverGhqWorktrees ==
    IF ghqState = "missing" THEN Returned(<<>>, "ghq is not installed")
    ELSE IF ghqState = "list_fails" THEN Returned(<<>>, "failed to list ghq repositories")
    ELSE Returned(entriesOfRepos(ListRepositories), NoErr)

\* discoverGhqWorktreesParallel(worktreesDir, maxWorkers): one result slot per
\* repository, flattened in slot order once every worker has finished
discoverGhqWorktreesParallel ==
    IF ghqState = "missing" THEN Returned(<<>>, "ghq is not installed")
    ELSE IF ghqState = "list_fails" THEN Returned(<<>>, "failed to list ghq repositories")
    ELSE IF Len(ListRepositories) = 0 THEN Returned(<<>>, NoErr)
    ELSE Returned(entriesOfRepos(ListRepositories), NoErr)

\* what DiscoverGlobalWorktrees(baseDir) returns on this snapshot
DiscoverSerialResult ==
    IF expandBaseDir(baseKind).err # NoErr THEN Returned(<<>>, expandBaseDir(baseKind).err)
    ELSE IF expandBaseDir(baseKind).dir = "" THEN Returned(<<>>, NoErr)
    ELSE Returned(serialFrom(1), NoErr)

\* the slots of extractWorktreeInfoWithWorkerPool once wg.Wait() has returned
FilledSlots(ps) ==
    [i \in DOMAIN ps |->
        IF extractWorktreeInfoWithFallback(tree[ps[i]].x).err = NoErr
        THEN <<ExtractedEntry(ps[i])>> ELSE <<>>]

\* what DiscoverGlobalWorktreesParallel(baseDir, opts) returns on this snapshot
DiscoverParallelResult(lz) ==
    IF lz THEN DiscoverLazyResult
    ELSE IF expandBaseDir(baseKind).err # NoErr THEN Returned(<<>>, expandBaseDir(baseKind).err)
    ELSE IF expandBaseDir(baseKind).dir = "" THEN Returned(<<>>, NoErr)
    ELSE Returned(filterNilEntries(FilledSlots(collectWorktreePaths)), NoErr)

\* the warnings of extractRepoAndWorktrees and of the body of the loop of
\* discoverGhqWorktrees for repository r, written by call c
repoWarnings(c, r) ==
    LET d == extractMainRepoInfo(repoState[r])
        w == discoverWorktreesInDir(r)
    IN IF d.err # NoErr THEN Warning(c, RepoPath(r), d.err)
       ELSE IF ~validWorktreesDir THEN {}
       ELSE IF w.err # NoErr THEN Warning(c, RepoPath(r) \o <<".worktrees">>, w.err)
       ELSE UNION {IF isWorktreeDirectory(ChildrenOf(1)[i])
                   THEN Warning(c, PathOf(ChildrenOf(1)[i]),
                                extractWorktreeInfoWithFallback(tree[ChildrenOf(1)[i]].x).err)
                   ELSE {} : i \in DOMAIN ChildrenOf(1)}

\* the per-item warnings of the two sources when aggregator c calls them
ghqWarnings(c) ==
    IF ~ghqEnabled \/ ghqState # "ok" THEN {}
    ELSE UNION {repoWarnings(c, ListRepositories[i]) : i \in DOMAIN ListRepositories}

baseWarnings(c, lz) ==
    IF baseKind = "unset" \/ expandBaseDir(baseKind).err # NoErr \/ expandBaseDir(baseKind).dir = ""
    THEN {}
    ELSE IF c = "serial" THEN serialWarnings(1)
    ELSE IF lz THEN {}
    ELSE UNION {Warning("pool", PathOf(collectWorktreePaths[i]),
                        extractWorktreeInfoWithFallback(tree[collectWorktreePaths[i]].x).err) :
                    i \in DOMAIN collectWorktreePaths}

\* the aggregator's locals: allEntries and seen
NoneYet == [all |-> <<>>, seen |-> {}]

\* an addUniqueEntries in which the later entry replaces the earlier one
KeepLast(acc, e) ==
    IF e.Path \notin acc.seen
    THEN [all |-> Append(acc.all, e), seen |-> acc.seen \cup {e.Path}]
    ELSE [acc EXCEPT !.all = [i \in DOMAIN acc.all |->
                                 IF acc.all[i].Path = e.Path THEN e ELSE acc.all[i]]]

\* the body of the loop of addUniqueEntries
KeepFirst(acc, e) ==
    IF e.Path \notin acc.seen
    THEN [all |-> Append(acc.all, e), seen |-> acc.seen \cup {e.Path}]
    ELSE acc

\* an addUniqueEntries that appends without looking at seen
addAllEntries(acc, es) ==
    [all |-> acc.all \o es, seen |-> acc.seen \cup {es[i].Path : i \in DOMAIN es}]

RECURSIVE addUniqueEntries(_, _)
\* addUniqueEntries(&allEntries, seen, entries)
addUniqueEntries(acc, es) ==
    IF es = <<>> THEN acc ELSE addUniqueEntries(KeepFirst(acc, Head(es)), Tail(es))

\* an aggregator that returns the first error a source reports
AggregateAbortOnError(g, b) ==
    IF ghqEnabled /\ g.err # NoErr THEN Returned(<<>>, g.err)
    ELSE IF baseKind # "unset" /\ b.err # NoErr THEN Returned(<<>>, b.err)
    ELSE Returned(addUniqueEntries(addUniqueEntries(NoneYet, IF ghqEnabled THEN g.entries ELSE <<>>),
                                   IF baseKind # "unset" THEN b.entries ELSE <<>>).all, NoErr)

\* the two "if" blocks of DiscoverAllWorktrees and DiscoverAllWorktreesParallel, given what
\* the repository-index source (g) and the base-directory source (b) return
Aggregate(g, b) ==
    LET afterGhq ==
            IF ~ghqEnabled THEN NoneYet
            ELSE IF g.err # NoErr THEN NoneYet
            ELSE addUniqueEntries(NoneYet, g.entries)
        afterBase ==
            IF baseKind = "unset" THEN afterGhq
            ELSE IF b.err # NoErr THEN afterGhq
            ELSE addUniqueEntries(afterGhq, b.entries)
    IN Returned(afterBase.all, NoErr)

\* DiscoverAllWorktrees(cfg)
DiscoverAllWorktrees ==
    /\ aggCall = "serial"
    /\ aggOut' = [aggOut EXCEPT !["serial"] = Aggregate(discoverGhqWorktrees, DiscoverSerialResult)]
    /\ aggCall' = "parallel"
    /\ warned' = warned \cup ghqWarnings("ghq") \cup baseWarnings("serial", FALSE)
    /\ UNCHANGED <<aggCfg, lazyVars, discCfg, callVars, poolVars, workVars, pipeVars, pureVars>>

\* DiscoverAllWorktreesParallel(cfg, opts)
DiscoverAllWorktreesParallel ==
    /\ aggCall = "parallel"
    /\ \E lz \in BOOLEAN :
          /\ aggOut' = [aggOut EXCEPT !["parallel"] =
                           Aggregate(discoverGhqWorktreesParallel, DiscoverParallelResult(lz))]
          /\ aggLazy' = lz
          /\ warned' = warned \cup ghqWarnings("ghqparallel") \cup baseWarnings("parallel", lz)
    /\ aggCall' = "done"
    /\ UNCHANGED <<ghqEnabled, ghqState, repos, repoState, ghqRoots, validWorktreesDir, inRepo,
                   lazyVars, discCfg, callVars, poolVars, workVars, pipeVars, pureVars>>

(***************************************************************************)
(* Part 4 - the classifier and the fast extractor on the files they read.  *)
(***************************************************************************)
\* file contents are sequences of tokens; these tokens are white space
Blank == {" ", "\n"}

RECURSIVE TrimLeft(_)
TrimLeft(c) == IF c # <<>> /\ Head(c) \in Blank THEN TrimLeft(Tail(c)) ELSE c

RECURSIVE TrimRight(_)
TrimRight(c) ==
    IF c # <<>> /\ c[Len(c)] \in Blank THEN TrimRight(SubSeq(c, 1, Len(c) - 1)) ELSE c

\* strings.TrimSpace
TrimSpace(c) == TrimRight(TrimLeft(c))

\* strings.HasPrefix(c, tok) for a prefix that is one token
HasPrefix(c, tok) == c # <<>> /\ Head(c) = tok

\* what a .git file may hold
GitFileContents ==
    {<<"gitdir:", "/r/.git/worktrees/w">>, <<"\n", " ", "gitdir:", "../r/.git/worktrees/w", "\n">>,
     <<"GITDIR:", "/r/.git/worktrees/w">>, <<"ref:", "refs/heads/main">>, <<>>}

\* what the system calls find at <dir>/.git: lstat's answer, stat's answer through a
\* symbolic link, ReadFile's answer and the content it returns
GitChildren ==
    {[lstat |-> l, stat |-> "-", read |-> "-", content |-> <<>>] :
        l \in {"ENOENT", "EACCES", "dir", "special"}}
    \cup {[lstat |-> "symlink", stat |-> t, read |-> "-", content |-> <<>>] :
            t \in {"ENOENT", "ELOOP", "dir"}}
    \cup {[lstat |-> l, stat |-> "regular", read |-> r, content |-> <<>>] :
            l \in {"regular", "symlink"}, r \in {"ENOENT", "EACCES"}}
    \cup {[lstat |-> l, stat |-> "regular", read |-> "ok", content |-> c] :
            l \in {"regular", "symlink"}, c \in GitFileContents}

\* the kind of .git child that isWorktreeDir tells apart, from what the system calls find
GitKindOf(ch) ==
    LET tag == IF ch.read # "ok" THEN "unreadable"
               ELSE IF HasPrefix(TrimSpace(ch.content), "gitdir:") THEN "gitdir"
               ELSE "other"
    IN CASE ch.lstat = "ENOENT"  -> "absent"
         [] ch.lstat = "EACCES"  -> "lstat_error"
         [] ch.lstat = "dir"     -> "dir"
         [] ch.lstat = "special" -> "special"
         [] ch.lstat = "regular" -> CASE tag = "unreadable" -> "file_unreadable"
                                      [] tag = "gitdir"     -> "file_gitdir"
                                      [] OTHER              -> "file_other"
         [] OTHER -> CASE ch.stat \in {"ENOENT", "ELOOP"} -> "symlink_dangling"
                       [] ch.stat = "dir"                 -> "symlink_dir"
                       [] tag = "unreadable"              -> "symlink_file_unreadable"
                       [] tag = "gitdir"                  -> "symlink_file_gitdir"
                       [] OTHER                           -> "symlink_file_other"

\* the calls of isWorktreeDir tried: entry kind, entry name, and the .git child
ClassifierInputs ==
    {[fn |-> "isWorktreeDir", isDir |-> d, name |-> n, child |-> ch] :
        d \in BOOLEAN, n \in {".git", "repo"}, ch \in GitChildren}

\* one call of isWorktreeDir(path, d)
Classify ==
    /\ pin.fn = "isWorktreeDir" /\ pout = <<>>
    /\ pout' = <<isWorktreeDir([isDir |-> pin.isDir, name |-> pin.name,
                                git |-> GitKindOf(pin.child)])>>
    /\ UNCHANGED <<pin, lazyVars, discVars, aggVars>>

\* ten-character pieces of what may stand for a commit id in a HEAD file
HexChunks == {"abcdef0123", "ABCDEF0123"}
Chunks == HexChunks \cup {"abcdefghij"}

\* len(s) of a string written as a sequence of tokens: a chunk has ten characters, white
\* space and "f" one; the other tokens never stand in a string of hexadecimal digits
RECURSIVE StrLen(_)
StrLen(c) ==
    IF c = <<>> THEN 0
    ELSE (IF Head(c) \in Chunks THEN 10
          ELSE IF Head(c) \in Blank \cup {"f"} THEN 1
          ELSE 16) + StrLen(Tail(c))

\* isHexString: every character is one of 0-9, a-f, A-F
isHexString(c) == \A i \in DOMAIN c : c[i] \in HexChunks \cup {"f"}

\* a parseBranchOrCommitFromHead that takes any symbolic reference for a branch
parseBranchOrCommitFromHeadAnyRef(content) ==
    LET c == TrimSpace(content)
    IN IF c # <<>> /\ Head(c) \in {"ref: refs/heads/", "ref: refs/tags/", "ref: refs/remotes/"}
       THEN [branch |-> Tail(c), commit |-> <<>>, needsFallback |-> FALSE]
       ELSE IF StrLen(c) = 40 /\ isHexString(c)
       THEN [branch |-> <<"HEAD">>, commit |-> c, needsFallback |-> FALSE]
       ELSE [branch |-> <<>>, commit |-> <<>>, needsFallback |-> TRUE]

\* parseBranchOrCommitFromHead(content)
parseBranchOrCommitFromHead(content) ==
    LET c == TrimSpace(content)
    IN IF HasPrefix(c, "ref: refs/heads/")
       THEN [branch |-> Tail(c), commit |-> <<>>, needsFallback |-> FALSE]
       ELSE IF StrLen(c) = 40 /\ isHexString(c)
       THEN [branch |-> <<"HEAD">>, commit |-> c, needsFallback |-> FALSE]
       ELSE [branch |-> <<>>, commit |-> <<>>, needsFallback |-> TRUE]

\* the HEAD files tried: a symbolic reference into a namespace, a string of chunks with
\* or without one more character, or some text; white space before and after
HeadInputs ==
    {[fn |-> "parseBranchOrCommitFromHead", form |-> "ref", ns |-> n, rest |-> r,
      lead |-> l, trail |-> t] :
        n \in {"ref: refs/heads/", "ref: refs/tags/", "ref: refs/remotes/"},
        r \in {<<"main">>, <<"feature/x">>, <<"origin/main">>, <<>>},
        l \in {<<>>, <<" ">>}, t \in {<<>>, <<"\n">>}}
    \cup {[fn |-> "parseBranchOrCommitFromHead", form |-> "hash", ns |-> "", rest |-> ch \o x,
           lead |-> l, trail |-> t] :
        ch \in UNION {[1..k -> Chunks] : k \in 3..MaxChunks}, x \in {<<>>, <<"f">>},
        l \in {<<>>, <<" ">>}, t \in {<<>>, <<"\n">>}}
    \cup {[fn |-> "parseBranchOrCommitFromHead", form |-> "text", ns |-> "", rest |-> r,
           lead |-> l, trail |-> t] :
        r \in {<<"invalid">>, <<>>}, l \in {<<>>, <<" ">>}, t \in {<<>>, <<"\n">>}}

\* the content of the HEAD file h describes
HeadContent(h) == h.lead \o (IF h.form = "ref" THEN <<h.ns>> ELSE <<>>) \o h.rest \o h.trail

\* one call of parseBranchOrCommitFromHead(string(headContent))
ParseHead ==
    /\ pin.fn = "parseBranchOrCommitFromHead" /\ pout = <<>>
    /\ pout' = <<parseBranchOrCommitFromHead(HeadContent(pin))>>
    /\ UNCHANGED <<pin, lazyVars, discVars, aggVars>>

\* strings.ToLower of one token
ToLower(tok) ==
    CASE tok = "[Remote \"Origin\"]" -> "[remote \"origin\"]"
      [] tok = "[Include]" -> "[include]"
      [] tok = "[includeIf \"gitdir:~/work/\"]" -> "[includeif \"gitdir:~/work/\"]"
      [] tok = "URL" -> "url"
      [] tok = "A" -> "a"
      [] tok = "B" -> "b"
      [] tok = "R" -> "r"
      [] OTHER -> tok

\* the tokens that begin with "[", the start of a section header
Bracketed ==
    {"[remote \"origin\"]", "[Remote \"Origin\"]", "[remote \"upstream\"]", "[core]",
     "[include]", "[Include]", "[includeIf \"gitdir:~/work/\"]"}

\* the lines a config file is made of
ConfigLines ==
    {<<"[remote \"origin\"]">>, <<" ", "[Remote \"Origin\"]">>, <<"[remote \"upstream\"]">>,
     <<"[core]">>, <<"[include]">>, <<"\t", "[Include]">>, <<"[includeIf \"gitdir:~/work/\"]">>,
     <<"\t", "url", " ", "=", " ", "https://github.com/user/repo.git">>,
     <<"URL", "=", "git@github.com:user/repo.git">>,
     <<"url", " ", "=">>,
     <<"\t", "path", " ", "=", " ", "~/.gitconfig.local">>}

\* strings.Contains(contentLower, "[include]") || strings.Contains(contentLower, "[includeif")
ContainsInclude(lines) ==
    \E i \in DOMAIN lines : \E j \in DOMAIN lines[i] :
        ToLower(lines[i][j]) \in {"[include]", "[includeif \"gitdir:~/work/\"]"}

\* the loop over the lines of parseRemoteFromConfigSimple
RECURSIVE originUrl(_, _)
originUrl(lines, inOrigin) ==
    IF lines = <<>> THEN [url |-> <<>>, err |-> "origin remote not found"]
    ELSE LET trimmedLine == TrimSpace(Head(lines))
             lineLower == [i \in DOMAIN trimmedLine |-> ToLower(trimmedLine[i])]
             rest == TrimLeft(Tail(trimmedLine))
             value == TrimSpace(Tail(rest))
         IN IF lineLower = <<"[remote \"origin\"]">> THEN originUrl(Tail(lines), TRUE)
            ELSE IF inOrigin /\ trimmedLine # <<>> /\ Head(trimmedLine) \in Bracketed
            THEN [url |-> <<>>, err |-> "origin remote not found"]
            ELSE IF /\ inOrigin
                    /\ HasPrefix(lineLower, "url")
                    /\ HasPrefix(rest, "=")
                    /\ value # <<>>
            THEN [url |-> value, err |-> ""]
            ELSE originUrl(Tail(lines), inOrigin)

\* a parseRemoteFromConfigSimple that looks for includes only before the origin section
parseRemoteFromConfigSimpleEarlyIncludes(cfg) ==
    IF cfg.read # "ok" THEN [url |-> <<>>, err |-> cfg.read]
    ELSE IF \E i \in DOMAIN cfg.lines :
                /\ ContainsInclude(<<cfg.lines[i]>>)
                /\ \A j \in 1..(i - 1) :
                       [k \in DOMAIN TrimSpace(cfg.lines[j]) |-> ToLower(TrimSpace(cfg.lines[j])[k])]
                           # <<"[remote \"origin\"]">>
    THEN [url |-> <<>>, err |-> "config includes external files"]
    ELSE originUrl(cfg.lines, FALSE)

\* parseRemoteFromConfigSimple(configPath), cfg the file at configPath
parseRemoteFromConfigSimple(cfg) ==
    IF cfg.read # "ok" THEN [url |-> <<>>, err |-> cfg.read]
    ELSE IF ContainsInclude(cfg.lines)
    THEN [url |-> <<>>, err |-> "config includes external files"]
    ELSE originUrl(cfg.lines, FALSE)

\* the config files tried: unreadable, or up to MaxConfigLines lines
ConfigInputs ==
    {[fn |-> "parseRemoteFromConfigSimple", read |-> "ENOENT", lines |-> <<>>]}
    \cup {[fn |-> "parseRemoteFromConfigSimple", read |-> "ok", lines |-> l] :
             l \in UNION {[1..k -> ConfigLines] : k \in 0..MaxConfigLines}}

\* one call of parseRemoteFromConfigSimple
ParseConfig ==
    /\ pin.fn = "parseRemoteFromConfigSimple" /\ pout = <<>>
    /\ pout' = <<parseRemoteFromConfigSimple(pin)>>
    /\ UNCHANGED <<pin, lazyVars, discVars, aggVars>>

\* what the fast path returns when a step fails: the error and no value
FastFailure(e) == [repoURL |-> <<>>, repoInfo |-> <<>>, branch |-> <<>>, commitHash |-> <<>>, err |-> e]

\* readCommitFromRefSafe: the trimmed content of refs/heads/<branch> of the main git directory
readCommitFromRefSafe(ref) ==
    IF ref.read # "ok"
    THEN [commit |-> <<>>, err |-> "ref file not found, fallback to git command"]
    ELSE [commit |-> TrimSpace(ref.content), err |-> ""]

\* a readWorktreeDetailsFast whose error returns keep what was read before the failure
readWorktreeDetailsFastKeepsPartial(w) ==
    LET contentStr == TrimSpace(w.gitFile.content)
        head == parseBranchOrCommitFromHead(HeadContent(w.head))
        fromRef == head.commit = <<>> /\ head.branch # <<"HEAD">>
        ref == readCommitFromRefSafe(w.ref)
        commitHash == IF fromRef THEN ref.commit ELSE head.commit
        remote == parseRemoteFromConfigSimple(w.config)
    IN IF w.gitFile.read # "ok" THEN FastFailure(w.gitFile.read)
       ELSE IF ~HasPrefix(contentStr, "gitdir:")
       THEN FastFailure("invalid .git file format: missing gitdir: prefix")
       ELSE IF w.head.read # "ok" THEN FastFailure(w.head.read)
       ELSE IF head.needsFallback THEN FastFailure("unsupported ref format")
       ELSE IF fromRef /\ ref.err # ""
       THEN [FastFailure(ref.err) EXCEPT !.branch = head.branch]
       ELSE IF remote.err # ""
       THEN [FastFailure(remote.err) EXCEPT !.branch = head.branch, !.commitHash = commitHash]
       ELSE [repoURL |-> remote.url, repoInfo |-> <<"info of">> \o remote.url,
             branch |-> head.branch, commitHash |-> commitHash, err |-> ""]

\* readWorktreeDetailsFast(worktreePath) as a function of the files it reads: w.gitFile is
\* <worktreePath>/.git, w.head is HEAD of the git directory the pointer names, w.ref the
\* loose reference of the branch and w.config the config of the main git directory
readWorktreeDetailsFastOf(w) ==
    LET contentStr == TrimSpace(w.gitFile.content)
        head == parseBranchOrCommitFromHead(HeadContent(w.head))
        fromRef == head.commit = <<>> /\ head.branch # <<"HEAD">>
        ref == readCommitFromRefSafe(w.ref)
        commitHash == IF fromRef THEN ref.commit ELSE head.commit
        remote == parseRemoteFromConfigSimple(w.config)
    IN IF w.gitFile.read # "ok" THEN FastFailure(w.gitFile.read)
       ELSE IF ~HasPrefix(contentStr, "gitdir:")
       THEN FastFailure("invalid .git file format: missing gitdir: prefix")
       ELSE IF w.head.read # "ok" THEN FastFailure(w.head.read)
       ELSE IF head.needsFallback THEN FastFailure("unsupported ref format")
       ELSE IF fromRef /\ ref.err # "" THEN FastFailure(ref.err)
       ELSE IF remote.err # "" THEN FastFailure(remote.err)
       ELSE [repoURL |-> remote.url, repoInfo |-> <<"info of">> \o remote.url,
             branch |-> head.branch, commitHash |-> commitHash, err |-> ""]

\* the entry both extractors build: not main, loaded
LoadedEntry(u, b, c) ==
    [entry |-> <<[RepositoryURL |-> u,
                  RepositoryInfo |-> IF u = <<>> THEN <<>> ELSE <<"info of">> \o u,
                  Branch |-> b, CommitHash |-> c, IsMain |-> FALSE, loaded |-> TRUE]>>,
     err |-> ""]

\* extractWorktreeInfo(worktreePath) as a function of what the git commands answer
extractWorktreeInfoOf(g) ==
    IF g.branch.err # ""
    THEN [entry |-> <<>>, err |-> "failed to get current branch: " \o g.branch.err]
    ELSE IF g.commit.err # ""
    THEN [entry |-> <<>>, err |-> "failed to get commit hash: " \o g.commit.err]
    ELSE LoadedEntry(IF g.url.err = "" THEN g.url.out ELSE <<>>, g.branch.out, g.commit.out)

\* extractWorktreeInfoWithFallback(worktreePath) as a function of the files and of git
extractWorktreeInfoWithFallbackOf(w) ==
    LET fast == readWorktreeDetailsFastOf(w)
    IN IF fast.err # "" THEN extractWorktreeInfoOf(w.git)
       ELSE LoadedEntry(fast.repoURL, fast.branch, fast.commitHash)

\* the files of one worktree and the answers of git about it; git's answers are told apart
\* from what the files hold
GitAnswers ==
    [url : {[out |-> <<"url from git">>, err |-> ""], [out |-> <<>>, err |-> "exit 1"]},
     branch : {[out |-> <<"branch from git">>, err |-> ""], [out |-> <<>>, err |-> "exit 128"]},
     commit : {[out |-> <<"commit from git">>, err |-> ""], [out |-> <<>>, err |-> "exit 128"]}]

WorktreeInputs ==
    [fn : {"extractWorktreeInfoWithFallback"},
     gitFile : {[read |-> "ENOENT", content |-> <<>>], [read |-> "EISDIR", content |-> <<>>]}
               \cup {[read |-> "ok", content |-> c] : c \in GitFileContents},
     head : {[read |-> r, form |-> h.form, ns |-> h.ns, rest |-> h.rest, lead |-> <<>>,
              trail |-> <<"\n">>] :
                r \in {"ok", "ENOENT"},
                h \in {[form |-> "ref", ns |-> "ref: refs/heads/", rest |-> <<"main">>],
                       [form |-> "ref", ns |-> "ref: refs/tags/", rest |-> <<"v1.0.0">>],
                       [form |-> "hash", ns |-> "", rest |-> [i \in 1..4 |-> "abcdef0123"]],
                       [form |-> "text", ns |-> "", rest |-> <<"invalid">>]}},
     ref : {[read |-> "ENOENT", content |-> <<>>],
            [read |-> "ok", content |-> <<"ABCDEF0123", "abcdef0123", "ABCDEF0123", "abcdef0123", "\n">>]},
     config : {[read |-> "ENOENT", lines |-> <<>>]}
              \cup {[read |-> "ok", lines |-> l] :
                       l \in {<<<<"[core]">>, <<"[remote \"origin\"]">>,
                                <<"\t", "url", " ", "=", " ", "https://github.com/user/repo.git">>>>,
                              <<<<"[remote \"origin\"]">>,
                                <<"\t", "url", " ", "=", " ", "https://github.com/user/repo.git">>,
                                <<"[include]">>>>,
                              <<<<"[core]">>, <<"[remote \"upstream\"]">>,
                                <<"URL", "=", "git@github.com:user/repo.git">>>>,
                              <<<<"[remote \"origin\"]">>, <<"url", " ", "=">>>>}},
     git : GitAnswers]

\* one call of extractWorktreeInfoWithFallback, with the result of the fast path it made
ExtractWithFallback ==
    /\ pin.fn = "extractWorktreeInfoWithFallback" /\ pout = <<>>
    /\ pout' = <<[fast |-> readWorktreeDetailsFastOf(pin),
                  result |-> extractWorktreeInfoWithFallbackOf(pin)]>>
    /\ UNCHANGED <<pin, lazyVars, discVars, aggVars>>

\* the value of a string of decimal digits
RECURSIVE DigitsValue(_)
DigitsValue(ds) ==
    IF ds = <<>> THEN 0
    ELSE 10 * DigitsValue(SubSeq(ds, 1, Len(ds) - 1))
         + (CASE Last(ds) = "0" -> 0 [] Last(ds) = "1" -> 1 [] OTHER -> 3)

\* strconv.Atoi(s) of a short string of characters, with os.Getenv's "" for an unset
\* variable: an optional sign, then one or more digits and nothing else
Atoi(str) ==
    LET signed == str # <<>> /\ Head(str) \in {"+", "-"}
        ds == IF signed THEN Tail(str) ELSE str
    IN IF str = <<>> THEN [kind |-> "unset", n |-> 0]
       ELSE IF ds = <<>> \/ \E i \in DOMAIN ds : ds[i] \notin {"0", "1", "3"}
       THEN [kind |-> "text", n |-> 0]
       ELSE [kind |-> "int", n |-> IF Head(str) = "-" THEN 0 - DigitsValue(ds) ELSE DigitsValue(ds)]

\* the settings of the worker count tried: processors, options (nil or MaxWorkers) and the
\* environment variable: unset, a signed or unsigned number, or other text
WorkerInputs ==
    LET settings ==
            {[form |-> "unset", sign |-> <<>>, text |-> <<>>]}
            \cup {[form |-> "number", sign |-> sg, text |-> ds] :
                     sg \in {<<>>, <<"+">>, <<"-">>},
                     ds \in UNION {[1..k -> {"0", "1", "3"}] : k \in 1..MaxDigits}}
            \cup {[form |-> "text", sign |-> <<>>, text |-> t] :
                     t \in {<<"a">>, <<" ", "1">>, <<"1", " ">>, <<"1", ".", "3">>, <<"+">>,
                            <<"-">>, <<"1", "a">>, <<"+", "-", "1">>}}
    IN [fn : {"getMaxWorkers"}, cpu : {1, 2, 4, 8}, nilOpts : BOOLEAN, MaxWorkers : -1..3,
        env : settings]

\* one call of getMaxWorkers(opts) in an environment
GetMaxWorkers ==
    /\ pin.fn = "getMaxWorkers" /\ pout = <<>>
    /\ pout' = <<getMaxWorkersOn(pin.cpu, IF pin.nilOpts THEN 0 ELSE pin.MaxWorkers,
                                 Atoi(pin.env.sign \o pin.env.text))>>
    /\ UNCHANGED <<pin, lazyVars, discVars, aggVars>>

\* strings.ToLower of a string of characters
Lower(str) == [i \in DOMAIN str |-> ToLower(str[i])]

\* strings.Contains(str, sub)
Contains(str, sub) ==
    \E i \in 0..(Len(str) - Len(sub)) : SubSeq(str, i + 1, i + Len(sub)) = sub

\* a matchesGlobalWorktree that does not try the owner/repository:branch form
matchesGlobalWorktreeNoBranchForm(e, pattern) ==
    LET branchLower == Lower(e.Branch)
        pathLower == Lower(e.Path)
        repoName == Lower(e.RepositoryInfo[1].Repository)
        ownerRepo == Lower(e.RepositoryInfo[1].Owner) \o <<"/">> \o repoName
    IN IF Contains(branchLower, pattern) \/ Contains(pathLower, pattern) THEN TRUE
       ELSE IF e.RepositoryInfo = <<>> THEN FALSE
       ELSE Contains(repoName, pattern) \/ Contains(ownerRepo, pattern)

\* matchesGlobalWorktree(entry, pattern); a nil RepositoryInfo is <<>>
matchesGlobalWorktree(e, pattern) ==
    LET branchLower == Lower(e.Branch)
        pathLower == Lower(e.Path)
        repoName == Lower(e.RepositoryInfo[1].Repository)
        ownerRepo == Lower(e.RepositoryInfo[1].Owner) \o <<"/">> \o repoName
        ownerRepoBranch == ownerRepo \o <<":">> \o branchLower
    IN IF Contains(branchLower, pattern) \/ Contains(pathLower, pattern) THEN TRUE
       ELSE IF e.RepositoryInfo = <<>> THEN FALSE
       ELSE \/ Contains(repoName, pattern)
            \/ Contains(ownerRepo, pattern)
            \/ Contains(ownerRepoBranch, pattern)

RECURSIVE FilterGlobalWorktrees(_, _)
\* FilterGlobalWorktrees(entries, pattern): the loop that appends the matching entries
FilterGlobalWorktrees(es, pattern) ==
    IF es = <<>> THEN <<>>
    ELSE (IF matchesGlobalWorktree(Head(es), Lower(pattern)) THEN <<Head(es)>> ELSE <<>>)
         \o FilterGlobalWorktrees(Tail(es), pattern)

\* the entries and patterns tried, as strings of characters: entries with and without a
\* branch and repository information, patterns of up to two characters
FilterEntries ==
    [Branch : {<<>>, <<"A", "b">>},
     Path : {<<"/", "x">>, <<"/", "R">>},
     RepositoryInfo : {<<>>, <<[Owner |-> <<"o">>, Repository |-> <<"R">>]>>,
                       <<[Owner |-> <<"A">>, Repository |-> <<"r", "b">>]>>}]

FilterInputs ==
    [fn : {"FilterGlobalWorktrees"},
     entries : UNION {[1..k -> FilterEntries] : k \in 0..MaxEntries},
     pattern : UNION {[1..k -> {"a", "B", "/", ":", "r", "o"}] : k \in 0..2}]

\* one call of FilterGlobalWorktrees(entries, pattern)
Filter ==
    /\ pin.fn = "FilterGlobalWorktrees" /\ pout = <<>>
    /\ pout' = <<FilterGlobalWorktrees(pin.entries, pin.pattern)>>
    /\ UNCHANGED <<pin, lazyVars, discVars, aggVars>>

\* Part 4 does not run
PureRest == pin = [fn |-> "none"] /\ pout = <<>>

PureStart == pin \in ClassifierInputs \cup HeadInputs \cup ConfigInputs \cup WorktreeInputs
                   \cup WorkerInputs \cup FilterInputs
             /\ pout = <<>>

PureNext ==
    \/ Classify
    \/ ParseHead
    \/ ParseConfig
    \/ ExtractWithFallback
    \/ GetMaxWorkers
    \/ Filter

LazyNext ==
    \/ \E c \in Callers :
          \/ EnsureLoaded(c) \/ OnceFast(c) \/ OnceLock(c) \/ OnceSlow(c)
          \/ loadDetails(c) \/ loadDetailsFromGit(c)
          \/ SetURL(c) \/ SetInfo(c) \/ SetBranch(c) \/ SetCommit(c) \/ SetLoaded(c)
          \/ StoreErr(c) \/ OnceDone(c) \/ OnceUnlock(c) \/ Return(c)
    \/ IsLoaded
    \/ FsChange

(***************************************************************************)
(* Initial states and specifications.                                      *)
(***************************************************************************)
\* the tree shapes tried: every directory lies in the base directory or in the one before it
TreeShapes ==
    {p \in [Nodes -> 0..NumDirs] : p[1] = 0 /\ \A n \in Nodes \ {1} : p[n] \in {1, n - 1}}

\* what a directory of the tree may be: plain, a main repository, or a worktree whose
\* extraction succeeds (fast or by git) or fails (git fails, or the path has vanished)
NodeOpts ==
    {[git |-> "absent", x |-> "broken"], [git |-> "dir", x |-> "main"]}
    \cup {[git |-> "file_gitdir", x |-> k] : k \in {"wt_fast", "gone"}}

Trees ==
    {[n \in Nodes |-> [parent |-> p[n], git |-> o[n].git, x |-> o[n].x]] :
        p \in TreeShapes, o \in [Nodes -> NodeOpts]}

EmptyTree == [n \in Nodes |-> [parent |-> IF n = 1 THEN 0 ELSE 1, git |-> "absent", x |-> "broken"]]

NoEnv == [kind |-> "unset", n |-> 0]

DiscIdle ==
    /\ nExtract = 0
    /\ warned = {}
    /\ started = [c \in {"serial", "pool", "pipeline", "lazy", "parlazy"} |->
                    [walk |-> FALSE, goroutines |-> 0]]
    /\ mpc = "idle"
    /\ maxWorkers = 0
    /\ paths = <<>>
    /\ submitted = 0 /\ jobs = <<>> /\ jobsClosed = FALSE /\ results = <<>>
    /\ workers = {} /\ wpc = <<>> /\ wcur = <<>>
    /\ walked = 0
    /\ pathChan = <<>> /\ pathClosed = FALSE
    /\ resultChan = <<>> /\ resultClosed = FALSE
    /\ doneChan = FALSE
    /\ entries = <<>>
    /\ cpc = "idle"
    /\ out = [c \in {"serial", "pool", "pipeline", "lazy", "parlazy"} |-> Pending]

\* Part 2 does not run
DiscRest ==
    /\ tree = EmptyTree
    /\ baseKind = "unset"
    /\ baseDir = <<>>
    /\ opts = 0
    /\ env = NoEnv
    /\ call = "done"
    /\ DiscIdle

\* Part 1 does not run
LazyRest ==
    /\ fs = "gone"
    /\ lazy = TRUE
    /\ entry = LazyEntry(<<>>, FALSE)
    /\ loadResult = NoDetails
    /\ onceDone = FALSE
    /\ onceMu = 0
    /\ pc = [c \in Callers |-> "idle"]
    /\ got = [c \in Callers |-> NoDetails]
    /\ ret = [c \in Callers |-> "none"]
    /\ loadCount = 0
    /\ rets = {}
    /\ obs = [asked |-> FALSE, answer |-> FALSE, complete |-> FALSE]

DiscStart ==
    /\ \/ baseKind = "dir" /\ tree \in Trees
       \/ baseKind \in {"unset", "missing", "file"} /\ tree = EmptyTree
    /\ baseDir = IF baseKind = "unset" THEN <<>> ELSE <<"/", "base">>
    /\ opts \in 1..MaxWorkers
    /\ env = NoEnv
    /\ call = "serial"
    /\ DiscIdle

DiscNext ==
    \/ DiscoverGlobalWorktrees
    \/ DiscoverGlobalWorktreesLazy
    \/ DiscoverGlobalWorktreesParallel
    \/ PoolSubmit
    \/ PoolClose
    \/ \E w \in 1..(MaxWorkers + NumDirs) : PoolRecv(w) \/ PoolExtract(w) \/ PoolWorkerExit(w)
    \/ PoolReturn
    \/ DiscoverGlobalWorktreesPipeline
    \/ PipeWalkSend
    \/ PipeWalkEnd
    \/ \E w \in 1..(MaxWorkers + NumDirs) :
          PipeRecv(w) \/ PipeExtract(w) \/ PipeSend(w) \/ PipeWorkerExit(w)
    \/ Collect
    \/ CollectExit
    \/ PipeWait
    \/ PipeReturn

\* Part 3 does not run
AggRest ==
    /\ ghqEnabled = FALSE
    /\ ghqState = "missing"
    /\ repos = <<>>
    /\ repoState = [r \in RepoIds |-> "gone"]
    /\ ghqRoots = <<>>
    /\ validWorktreesDir = TRUE
    /\ inRepo = FALSE
    /\ aggLazy = FALSE
    /\ aggCall = "done"
    /\ aggOut = [c \in {"serial", "parallel"} |-> Pending]

\* the repository lists tried: up to MaxRepos lines, a repository may be listed twice
RepoLists == UNION {[1..k -> RepoIds] : k \in 0..MaxRepos}

\* the base directories tried by the aggregator: plain, with worktrees directly inside
FlatTrees ==
    {t \in Trees : t[1].git = "absent" /\ \A n \in Nodes \ {1} : t[n].parent = 1}

\* the base directories tried with every setting of the worker count: plain, with plain
\* directories and worktrees directly inside, so that there are zero candidates and more
\* candidates than the path channel holds
WorkerTrees ==
    {[n \in Nodes |->
        IF n = 1 THEN [parent |-> 0, git |-> "absent", x |-> "broken"]
        ELSE [parent |-> 1, git |-> k[n].git, x |-> k[n].x]] :
     k \in {f \in [Nodes \ {1} -> {[git |-> "absent", x |-> "broken"],
                                    [git |-> "file_gitdir", x |-> "wt_fast"],
                                    [git |-> "file_gitdir", x |-> "gone"]}] :
                \A n \in Nodes \ {1, 2} : f[n].x # "gone"}}

\* opts.MaxWorkers and GWQ_DISCOVERY_WORKERS: negative, zero, positive, unset, not a number
WorkersStart ==
    /\ baseKind = "dir" /\ tree \in WorkerTrees
    /\ baseDir = <<"/", "base">>
    /\ \E s \in {<<-1, NoEnv>>, <<0, [kind |-> "text", n |-> 0]>>,
                  <<1, [kind |-> "text", n |-> 0]>>, <<1, [kind |-> "int", n |-> 0]>>,
                  <<1, [kind |-> "int", n |-> -1]>>, <<0, [kind |-> "int", n |-> 1]>>} :
          opts = s[1] /\ env = s[2]
    /\ call = "serial"
    /\ DiscIdle

\* one filesystem snapshot: a base directory whose children are plain directories or
\* worktrees that the files answer for, that only git answers for, or that nothing
\* answers for (the first child may also have vanished)
SnapshotTrees ==
    {[n \in Nodes |->
        IF n = 1 THEN [parent |-> 0, git |-> "absent", x |-> "broken"]
        ELSE [parent |-> 1, git |-> k[n].git, x |-> k[n].x]] :
     k \in {f \in [Nodes \ {1} -> {[git |-> "absent", x |-> "broken"],
                                    [git |-> "file_gitdir", x |-> "wt_fast"],
                                    [git |-> "file_gitdir", x |-> "wt_git"],
                                    [git |-> "file_gitdir", x |-> "broken"],
                                    [git |-> "file_gitdir", x |-> "gone"]}] :
                \A n \in Nodes \ {1, 2} : f[n].x \in {"wt_fast", "broken"}}}

\* every discovery call is made on the snapshot; no entry is being loaded yet
SnapshotStart ==
    /\ baseKind = "dir" /\ tree \in SnapshotTrees
    /\ baseDir = <<"/", "base">>
    /\ opts = 1
    /\ env = NoEnv
    /\ call = "serial"
    /\ DiscIdle
    /\ fs = "gone"
    /\ lazy = TRUE
    /\ entry = LazyEntry(<<>>, FALSE)
    /\ loadResult = NoDetails
    /\ onceDone = FALSE
    /\ onceMu = 0
    /\ pc = [c \in Callers |-> "no_entry"]
    /\ got = [c \in Callers |-> NoDetails]
    /\ ret = [c \in Callers |-> "none"]
    /\ loadCount = 0
    /\ rets = {}
    /\ obs = [asked |-> FALSE, answer |-> FALSE, complete |-> FALSE]

\* the directory of the tree that has path p
NodeAt(p) == CHOOSE n \in Nodes : PathOf(n) = p

\* the caller of the lazy discovery takes one of the entries it returned, to call
\* EnsureLoaded() on it; the filesystem at the entry's path is the snapshot's
PickLazyEntry ==
    /\ call = "done"
    /\ \A c \in Callers : pc[c] = "no_entry"
    /\ \E i \in DOMAIN out["lazy"].entries :
          /\ entry' = out["lazy"].entries[i]
          /\ fs' = tree[NodeAt(out["lazy"].entries[i].Path)].x
    /\ pc' = [c \in Callers |-> IF c = 1 THEN "idle" ELSE "no_entry"]
    /\ UNCHANGED <<onceDone, onceMu, got, ret, lazy, loadCount, loadResult, rets, obs>>
    /\ UNCHANGED <<discVars, aggVars, pureVars>>

\* the discovery calls, then EnsureLoaded() on a lazy entry, the filesystem unchanged
SnapshotNext ==
    \/ DiscNext
    \/ PickLazyEntry
    \/ \E c \in Callers :
          \/ EnsureLoaded(c) \/ OnceFast(c) \/ OnceLock(c) \/ OnceSlow(c)
          \/ loadDetails(c) \/ loadDetailsFromGit(c)
          \/ SetURL(c) \/ SetInfo(c) \/ SetBranch(c) \/ SetCommit(c) \/ SetLoaded(c)
          \/ StoreErr(c) \/ OnceDone(c) \/ OnceUnlock(c) \/ Return(c)

AggStart ==
    /\ \/ /\ ghqEnabled \in BOOLEAN
          /\ ghqState \in {"missing", "list_fails"}
          /\ repos = <<>>
          /\ repoState = [r \in RepoIds |-> "gone"]
          /\ ghqRoots = <<>>
          /\ validWorktreesDir = TRUE
          /\ inRepo = FALSE
       \/ /\ ghqEnabled = TRUE
          /\ ghqState = "ok"
          /\ repos \in RepoLists
          /\ repoState \in [RepoIds -> {"main", "main_unborn", "gone", "wt_fast"}]
          /\ repoState["r1"] # "main_unborn"
          /\ repoState["r2"] # "wt_fast"
          /\ ghqRoots \in {<<>>, <<GhqRoot>>}
          /\ validWorktreesDir \in BOOLEAN
          /\ inRepo \in BOOLEAN
    /\ \/ baseKind = "dir" /\ tree \in FlatTrees
       \/ baseKind \in {"unset", "missing", "file"} /\ tree = EmptyTree
    /\ baseDir = IF baseKind = "unset" THEN <<>>
                 ELSE IF inRepo THEN RepoPath("r1") \o <<".worktrees">>
                 ELSE <<"/", "base">>
    /\ opts = 1
    /\ env = NoEnv
    /\ call = "done"
    /\ DiscIdle
    /\ aggLazy = FALSE
    /\ aggCall = "serial"
    /\ aggOut = [c \in {"serial", "parallel"} |-> Pending]

AggNext ==
    \/ DiscoverAllWorktrees
    \/ DiscoverAllWorktreesParallel

\* the ways cfg.Worktree.BaseDir is written: absolute, relative to the working
\* directory, under "~", and as the worktrees directory of repository r1
BaseDirForms ==
    {<<"/", "base">>, <<"base">>, <<"~", "base">>, RepoPath("r1") \o <<".worktrees">>}

\* every discovery call and both aggregators on one configuration
PathsStart ==
    /\ ghqEnabled = TRUE
    /\ ghqState = "ok"
    /\ repos = <<"r1">>
    /\ repoState = [r \in RepoIds |-> IF r = "r1" THEN "main" ELSE "main_unborn"]
    /\ ghqRoots = <<GhqRoot>>
    /\ validWorktreesDir = TRUE
    /\ baseKind = "dir"
    /\ tree \in {t \in FlatTrees : \A n \in Nodes : t[n].git # "dir"}
    /\ baseDir \in BaseDirForms
    /\ inRepo = (baseDir = RepoPath("r1") \o <<".worktrees">>)
    /\ opts = 1
    /\ env = NoEnv
    /\ call = "serial"
    /\ DiscIdle
    /\ aggLazy = FALSE
    /\ aggCall = "serial"
    /\ aggOut = [c \in {"serial", "parallel"} |-> Pending]

PathsNext == DiscNext \/ AggNext

InitLazy == LazyStart /\ DiscRest /\ AggRest /\ PureRest
InitDisc == DiscStart /\ LazyRest /\ AggRest /\ PureRest
InitAgg == AggStart /\ LazyRest /\ PureRest
InitWorkers == WorkersStart /\ LazyRest /\ AggRest /\ PureRest
InitSnapshot == SnapshotStart /\ AggRest /\ PureRest
InitPaths == PathsStart /\ LazyRest /\ PureRest
InitPure == PureStart /\ LazyRest /\ DiscRest /\ AggRest

SpecLazy == InitLazy /\ [][LazyNext]_vars
SpecDisc == InitDisc /\ [][DiscNext]_vars
SpecAgg == InitAgg /\ [][AggNext]_vars
\* a goroutine that can take a step is scheduled, and an extraction that has begun returns
SpecWorkers == InitWorkers /\ [][DiscNext]_vars /\ WF_vars(DiscNext)
SpecSnapshot == InitSnapshot /\ [][SnapshotNext]_vars
SpecPaths == InitPaths /\ [][PathsNext]_vars
SpecPure == InitPure /\ [][PureNext]_vars


(***************************************************************************)
(* Properties of the lazy entry.                                           *)
(***************************************************************************)
\* a caller is inside the function sync.Once runs (loadDetails and the store of its result)
InLoad(c) == pc[c] \in {"loadDetails", "fromGit", "set_url", "set_info", "set_branch",
                         "set_commit", "set_loaded", "store_err", "once_done"}

\* the load state of section 3: unloaded, loading, loaded, failed
LoadState ==
    IF onceDone THEN (IF entry.loadErr = NoErr THEN "loaded" ELSE "failed")
    ELSE IF \E c \in Callers : InLoad(c) THEN "loading"
    ELSE "unloaded"

\* C1: for a lazy entry and any number of concurrent EnsureLoaded() calls,
\* loadDetails is started at most once (exactly once when a call has returned),
\* no call has returned while that extraction is still running, and all the
\* values returned are one and the same.
C1_LoadOnceSameOutcome ==
    lazy =>
        /\ loadCount <= 1
        /\ Cardinality(rets) <= 1
        /\ \A c \in Callers :
              ret[c] # "none" =>
                  /\ loadCount = 1
                  /\ onceDone
                  /\ \A d \in Callers : ~InLoad(d)
                  /\ ret[c] = entry.loadErr

\* every caller has returned from a call, and the calls overlapped: the result is an error
C1_Witness ==
    /\ lazy
    /\ loadCount = 1
    /\ \A c \in Callers : ret[c] # "none" /\ ret[c] # NoErr

LoadStateSteps ==
    {<<"unloaded", "loading">>, <<"loading", "loaded">>, <<"loading", "failed">>}

\* C5: the load state of a lazy entry moves only unloaded -> loading -> loaded
\* or unloaded -> loading -> failed; once an EnsureLoaded() has returned, no
\* extraction is started again and every later call returns the same value,
\* whatever the filesystem has become; after a failed load the loaded flag
\* stays false and branch, commitHash and repositoryURL stay empty.
C5_LoadStateMachine ==
    [][lazy =>
        /\ LoadState' = LoadState \/ <<LoadState, LoadState'>> \in LoadStateSteps
        /\ rets # {} => (loadCount' = loadCount /\ rets' = rets)
        /\ LoadState' = "failed" =>
              /\ ~entry'.loaded
              /\ entry'.Branch = "" /\ entry'.CommitHash = "" /\ entry'.RepositoryURL = ""
      ]_vars

\* a failed load is returned again by a later call although the path has become loadable
C5_Witness ==
    /\ lazy
    /\ LoadState = "failed"
    /\ readWorktreeDetailsFast(fs).err = NoErr
    /\ entry.Path # <<>> /\ ~entry.IsMain
    /\ \A c \in Callers : ret[c] = entry.loadErr
    /\ \E c \in Callers : pc[c] = "return"

Range(f) == {f[i] : i \in DOMAIN f}

PathsOf(es) == {es[i].Path : i \in DOMAIN es}

Finished(c) == out[c] # Pending

\* the candidates of the walk whose own extraction succeeds
Succeeding ==
    {n \in Range(collectWorktreePaths) : extractWorktreeInfoWithFallback(tree[n].x).err = NoErr}

Failing == Range(collectWorktreePaths) \ Succeeding

\* an entry without the display path, which only the serial strategy sets
Plain(e) == [e EXCEPT !.DisplayPath = <<>>]

Extracting == {w \in workers : wpc[w] = "extract"}

\* C2: on one filesystem snapshot the serial, the worker-pool and the pipeline
\* strategy return the same set of entry paths, whatever the worker count and
\* the scheduling of the workers.
C2_SameSetOfPaths ==
    (Finished("serial") /\ Finished("pool") /\ Finished("pipeline")) =>
        /\ PathsOf(out["serial"].entries) = PathsOf(out["pool"].entries)
        /\ PathsOf(out["pool"].entries) = PathsOf(out["pipeline"].entries)

\* two workers, an extraction that fails, and a pipeline that returns the
\* entries in another order than the serial walk
C2_Witness ==
    /\ call = "done"
    /\ opts = 2
    /\ Failing # {}
    /\ Cardinality(Succeeding) >= 2
    /\ [i \in DOMAIN out["pipeline"].entries |-> out["pipeline"].entries[i].Path]
         # [i \in DOMAIN out["serial"].entries |-> out["serial"].entries[i].Path]

\* C4: in the serial, worker-pool and pipeline strategy a failed extraction
\* aborts nothing: the call returns no error and its result holds, once each
\* and unaltered, exactly the entries of the candidates whose own extraction
\* succeeded (none when all failed).
C4_FailureIsolation ==
    \A c \in {"serial", "pool", "pipeline"} :
        (baseKind = "dir" /\ Finished(c)) =>
            /\ out[c].err = NoErr
            /\ {Plain(out[c].entries[i]) : i \in DOMAIN out[c].entries}
                 = {ExtractedEntry(n) : n \in Succeeding}
            /\ Len(out[c].entries) = Cardinality(Succeeding)

\* one worker; the first candidate fails and two later ones succeed
C4_Witness ==
    /\ call = "done"
    /\ opts = 1
    /\ Len(collectWorktreePaths) = 3
    /\ collectWorktreePaths[1] \in Failing
    /\ Cardinality(Succeeding) = 2
    /\ Len(out["pipeline"].entries) = 2

\* C8: in the worker pool and in the pipeline started with N workers, at most
\* N extractions are in progress in any state, however many candidates wait.
C8_AtMostNExtractions ==
    call \in {"pool", "pipeline"} =>
        Cardinality(Extracting) <= getMaxWorkers(opts, env)

\* all N extractions are busy while a further candidate waits in the channel
C8_Witness ==
    /\ call = "pipeline"
    /\ Cardinality(Extracting) = getMaxWorkers(opts, env)
    /\ Len(collectWorktreePaths) > getMaxWorkers(opts, env)
    /\ getMaxWorkers(opts, env) = 2
    /\ pathChan # <<>>

\* C10: every entry returned by DiscoverGlobalWorktreesLazy, and by
\* DiscoverGlobalWorktreesParallel with Lazy set, has its path set, isMain
\* false, branch, commitHash and repositoryURL empty and IsLoaded() false,
\* there is one entry per candidate of the walk, and no extraction is started.
C10_LazyEntriesBare ==
    \A c \in {"lazy", "parlazy"} :
        Finished(c) =>
            /\ \A i \in DOMAIN out[c].entries :
                  LET e == out[c].entries[i]
                  IN /\ e.Path = PathOf(collectWorktreePaths[i])
                     /\ e.Path # <<>>
                     /\ ~e.IsMain
                     /\ e.Branch = "" /\ e.CommitHash = "" /\ e.RepositoryURL = ""
                     /\ ~e.loaded
            /\ baseKind = "dir" => Len(out[c].entries) = Len(collectWorktreePaths)
            /\ call \in {"parlazy", "done"} => nExtract = 0

\* both lazy calls have returned several entries, one of a candidate whose
\* extraction would succeed and one of a candidate whose extraction would fail
C10_Witness ==
    /\ call = "done"
    /\ Len(out["lazy"].entries) >= 2
    /\ Len(out["parlazy"].entries) >= 2
    /\ Succeeding # {} /\ Failing # {}

\* the five ways the base-directory discovery is entered (opts.Lazy makes the fifth)
EntryPoints == {"serial", "pool", "pipeline", "lazy", "parlazy"}

\* C11: when the base directory does not exist, every entry point returns an empty list and
\* no error, having run no walk and started no goroutine.
C11_MissingBaseDirIsEmpty ==
    baseKind = "missing" =>
        /\ workers = {}
        /\ \A c \in EntryPoints : Finished(c) =>
              /\ out[c] = Returned(<<>>, NoErr)
              /\ ~started[c].walk
              /\ started[c].goroutines = 0

\* every entry point has returned for a base directory that does not exist
C11_Witness ==
    /\ baseKind = "missing"
    /\ call = "done"
    /\ \A c \in EntryPoints : Finished(c)

\* the messages of the model's errors that contain the words "not a directory"
MentionsNotADirectory == {"base directory path is not a directory"}

\* C12: when the base directory path is not a directory, every entry point returns an error
\* that mentions "not a directory", and no entries.
C12_FileBaseDirIsError ==
    baseKind = "file" =>
        \A c \in EntryPoints : Finished(c) =>
            /\ out[c].err \in MentionsNotADirectory
            /\ out[c].entries = <<>>

\* every entry point has returned for a base directory path that is a regular file
C12_Witness ==
    /\ baseKind = "file"
    /\ call = "done"
    /\ \A c \in EntryPoints : Finished(c)

(***************************************************************************)
(* Properties of the aggregator (SpecAgg).                                 *)
(***************************************************************************)
AggCalls == {"serial", "parallel"}
AggDone(c) == aggOut[c] # Pending

\* what each source returned to aggregator call c
GhqReturn(c) == IF c = "serial" THEN discoverGhqWorktrees ELSE discoverGhqWorktreesParallel
BaseReturn(c) == IF c = "serial" THEN DiscoverSerialResult ELSE DiscoverParallelResult(aggLazy)

GhqFailed(c) == ghqEnabled /\ GhqReturn(c).err # NoErr
BaseFailed(c) == baseKind # "unset" /\ BaseReturn(c).err # NoErr

\* the entries each source reported to call c; none when it is disabled or failed
GhqReported(c) == IF ghqEnabled /\ ~GhqFailed(c) THEN GhqReturn(c).entries ELSE <<>>
BaseReported(c) == IF baseKind # "unset" /\ ~BaseFailed(c) THEN BaseReturn(c).entries ELSE <<>>

\* the entries of s whose path no earlier entry of s has, in the order of s
FirstReports(s) ==
    LET idx == SortedSeq({i \in DOMAIN s : \A j \in 1..(i - 1) : s[j].Path # s[i].Path})
    IN [k \in DOMAIN idx |-> s[idx[k]]]

\* C3: the result of either aggregator holds no two entries with the same path, and a path
\* a source reported (once or several times, by one source or both) is in it exactly once.
C3_NoDuplicatePaths ==
    \A c \in AggCalls : AggDone(c) =>
        LET es == aggOut[c].entries
        IN /\ \A i, j \in DOMAIN es : i # j => es[i].Path # es[j].Path
           /\ \A p \in PathsOf(GhqReported(c)) \cup PathsOf(BaseReported(c)) :
                 Cardinality({i \in DOMAIN es : es[i].Path = p}) = 1

\* an aggregator has returned a path that both sources reported
C3_Witness ==
    \E c \in AggCalls :
        /\ AggDone(c)
        /\ PathsOf(GhqReported(c)) \cap PathsOf(BaseReported(c)) \cap PathsOf(aggOut[c].entries) # {}

\* C6: neither aggregator returns an error; a source that fails contributes nothing, and
\* the result is then the other source's entries without duplicates (nothing when the
\* other source is disabled or fails as well).
C6_SourceFailureTolerated ==
    \A c \in AggCalls : AggDone(c) =>
        LET es == aggOut[c].entries
        IN /\ aggOut[c].err = NoErr
           /\ GhqFailed(c) =>
                 /\ Range(es) \subseteq Range(BaseReported(c))
                 /\ PathsOf(es) = PathsOf(BaseReported(c))
           /\ BaseFailed(c) =>
                 /\ Range(es) \subseteq Range(GhqReported(c))
                 /\ PathsOf(es) = PathsOf(GhqReported(c))
           /\ (GhqFailed(c) \/ BaseFailed(c)) =>
                 \A i, j \in DOMAIN es : i # j => es[i].Path # es[j].Path

\* the repository index failed and the aggregator returned the base directory's worktrees
C6_Witness ==
    \E c \in AggCalls :
        /\ AggDone(c)
        /\ GhqFailed(c)
        /\ BaseReturn(c).entries # <<>>
        /\ aggOut[c].entries # <<>>

\* C7: the repository-index source is consulted first; of the entries with one path the first
\* reported one is kept, with its isMain and displayPath, and the result lists the kept
\* entries in the order in which they were first reported.
C7_FirstSourceWins ==
    \A c \in AggCalls : AggDone(c) =>
        aggOut[c].entries = FirstReports(GhqReported(c) \o BaseReported(c))

\* both sources reported one path with different display paths; the index's entry is kept
C7_Witness ==
    \E c \in AggCalls :
        /\ AggDone(c)
        /\ \E i \in DOMAIN GhqReported(c), j \in DOMAIN BaseReported(c) :
              /\ GhqReported(c)[i].Path = BaseReported(c)[j].Path
              /\ GhqReported(c)[i].DisplayPath # BaseReported(c)[j].DisplayPath
              /\ GhqReported(c)[i] \in Range(aggOut[c].entries)

(***************************************************************************)
(* Properties of the entries the discovery calls return.                   *)
(***************************************************************************)
\* C13: every non-lazy entry a discovery call returns has a branch and a commit hash,
\* neither of them empty.
C13_BranchAndCommitPopulated ==
    \A c \in AggCalls : AggDone(c) =>
        \A e \in Range(aggOut[c].entries) :
            e.loaded => e.Branch # "" /\ e.CommitHash # ""

Returns(f) == pin.fn = f /\ pout # <<>>

\* every inspection isWorktreeDir makes of the .git child succeeds
AllInspected(ch) ==
    /\ ch.lstat \in {"dir", "regular", "symlink"}
    /\ ch.stat \in {"-", "dir", "regular"}
    /\ ch.read \in {"-", "ok"}

\* the content holds the pointer prefix first, white space aside
StartsWithPointer(c) ==
    \E i \in DOMAIN c : c[i] = "gitdir:" /\ \A j \in 1..(i - 1) : c[j] \in Blank

\* C15: when every inspection succeeds, isWorktreeDir answers by the first rule that
\* applies: not a directory -> (not worktree, no prune); named .git -> (not worktree, prune);
\* .git child a directory or a link to one -> (not worktree, prune); .git child a regular
\* file or a link to one that begins with the pointer prefix -> (worktree, prune); any other
\* content -> (not worktree, no prune).
C15_ClassifierRules ==
    (Returns("isWorktreeDir") /\ (pin.isDir /\ pin.name # ".git" => AllInspected(pin.child))) =>
        pout[1] =
            IF ~pin.isDir THEN Verdict(FALSE, FALSE)
            ELSE IF pin.name = ".git" THEN Verdict(FALSE, TRUE)
            ELSE IF pin.child.lstat = "dir" \/ pin.child.stat = "dir" THEN Verdict(FALSE, TRUE)
            ELSE IF StartsWithPointer(pin.child.content) THEN Verdict(TRUE, TRUE)
            ELSE Verdict(FALSE, FALSE)

\* a directory whose .git is a link to a regular file holding the pointer is a worktree
C15_Witness ==
    /\ Returns("isWorktreeDir")
    /\ pin.isDir /\ pin.name # ".git"
    /\ pin.child.lstat = "symlink" /\ pin.child.stat = "regular" /\ pin.child.read = "ok"
    /\ StartsWithPointer(pin.child.content)
    /\ pout[1] = Verdict(TRUE, TRUE)

\* the .git child is absent, cannot be inspected, or is missing at some inspection
NotInspected(ch) ==
    \/ ch.lstat \in {"ENOENT", "EACCES"}
    \/ ch.stat \in {"ENOENT", "ELOOP"}
    \/ ch.read \in {"ENOENT", "EACCES"}

\* C16 as stated: for a directory whose .git child is absent, cannot be inspected or is
\* found missing at any inspection step, isWorktreeDir returns (not worktree, no prune).
C16_MissingChildKeepsWalking ==
    (Returns("isWorktreeDir") /\ pin.isDir /\ pin.name # ".git" /\ NotInspected(pin.child)) =>
        pout[1] = Verdict(FALSE, FALSE)

\* C16 as amended: the same, except that a symbolic link whose target cannot be resolved
\* makes isWorktreeDir return (not worktree, prune).
C16_MissingChildAmended ==
    (Returns("isWorktreeDir") /\ pin.isDir /\ pin.name # ".git" /\ NotInspected(pin.child)) =>
        pout[1] = IF pin.child.lstat = "symlink" /\ pin.child.stat \in {"ENOENT", "ELOOP"}
                  THEN Verdict(FALSE, TRUE)
                  ELSE Verdict(FALSE, FALSE)

\* isWorktreeDir has answered for a .git link whose target does not exist
C16_Witness ==
    /\ Returns("isWorktreeDir")
    /\ pin.isDir /\ pin.name # ".git"
    /\ pin.child.lstat = "symlink" /\ pin.child.stat = "ENOENT"
    /\ pout[1] = Verdict(FALSE, TRUE)

\* C18: parseBranchOrCommitFromHead knows two forms of the HEAD content: a symbolic
\* reference under refs/heads/ gives (the name after the prefix, no commit, no fallback), a
\* string of 40 hexadecimal characters gives ("HEAD", that string, no fallback); any other
\* content gives needsFallback with branch and commit empty.
C18_HeadForms ==
    Returns("parseBranchOrCommitFromHead") =>
        pout[1] =
            IF pin.form = "ref" /\ pin.ns = "ref: refs/heads/"
            THEN [branch |-> pin.rest, commit |-> <<>>, needsFallback |-> FALSE]
            ELSE IF /\ pin.form = "hash"
                    /\ Len(pin.rest) = 4
                    /\ \A i \in DOMAIN pin.rest : pin.rest[i] \in HexChunks
            THEN [branch |-> <<"HEAD">>, commit |-> pin.rest, needsFallback |-> FALSE]
            ELSE [branch |-> <<>>, commit |-> <<>>, needsFallback |-> TRUE]

\* a tag reference has been parsed and needs the fallback
C18_Witness ==
    /\ Returns("parseBranchOrCommitFromHead")
    /\ pin.form = "ref" /\ pin.ns = "ref: refs/tags/" /\ pin.rest # <<>>
    /\ pout[1].needsFallback

\* the section headers that make git read other files
IncludeHeaders == {"[include]", "[Include]", "[includeIf \"gitdir:~/work/\"]"}

\* line i of the lines is an include or conditional-include section header
IncludeAt(lines, i) == \E j \in DOMAIN lines[i] : lines[i][j] \in IncludeHeaders

\* line i sets a non-empty url
UrlAt(lines, i) ==
    /\ Len(lines[i]) > 1 /\ Last(lines[i]) # "="
    /\ \E j \in DOMAIN lines[i] : lines[i][j] \in {"url", "URL"}

\* line i opens the section of the remote origin
OriginAt(lines, i) ==
    \E j \in DOMAIN lines[i] : lines[i][j] \in {"[remote \"origin\"]", "[Remote \"Origin\"]"}

\* C19: parseRemoteFromConfigSimple returns an error and no URL whenever the config file
\* holds an include or includeIf section on any line, with or without an origin section
\* that has a url, before or after it.
C19_IncludeMeansFallback ==
    (Returns("parseRemoteFromConfigSimple") /\ \E i \in DOMAIN pin.lines : IncludeAt(pin.lines, i)) =>
        pout[1].err # "" /\ pout[1].url = <<>>

\* a config with the origin section and its url first and an include after them was parsed
C19_Witness ==
    /\ Returns("parseRemoteFromConfigSimple")
    /\ \E i, j, k \in DOMAIN pin.lines :
           i < j /\ j < k /\ OriginAt(pin.lines, i) /\ UrlAt(pin.lines, j) /\ IncludeAt(pin.lines, k)
    /\ pout[1].err = "config includes external files"

\* a step of the fast path fails on the files of pin: the pointer file unreadable or without
\* the prefix, HEAD unreadable or of an unsupported form, the loose reference of the branch
\* missing, the config unreadable, with an include, or without a url of origin
PointerFails == pin.gitFile.read # "ok" \/ ~StartsWithPointer(pin.gitFile.content)
HeadFails ==
    \/ pin.head.read # "ok"
    \/ pin.head.form = "text"
    \/ pin.head.form = "ref" /\ pin.head.ns # "ref: refs/heads/"
RefFails == pin.head.form = "ref" /\ pin.ref.read # "ok"
ConfigFails ==
    \/ pin.config.read # "ok"
    \/ \E i \in DOMAIN pin.config.lines : IncludeAt(pin.config.lines, i)
    \/ ~\E i \in DOMAIN pin.config.lines :
            /\ OriginAt(pin.config.lines, i)
            /\ i + 1 \in DOMAIN pin.config.lines
            /\ UrlAt(pin.config.lines, i + 1)
SomeStepFails == PointerFails \/ HeadFails \/ RefFails \/ ConfigFails

\* C17: fast extraction is all or nothing. When a step fails readWorktreeDetailsFast returns
\* an error and every output empty, and what extractWorktreeInfoWithFallback returns is what
\* the git commands alone give: their branch, commit and url (no url when git has none), or
\* their error and no entry; a failing fast path never leaves an output behind.
C17_FastAllOrNothing ==
    Returns("extractWorktreeInfoWithFallback") =>
        /\ pout[1].fast.err # "" => pout[1].fast = FastFailure(pout[1].fast.err)
        /\ SomeStepFails =>
              /\ pout[1].fast.err # ""
              /\ IF pin.git.branch.err = "" /\ pin.git.commit.err = ""
                 THEN /\ pout[1].result.err = ""
                      /\ pout[1].result.entry[1].Branch = pin.git.branch.out
                      /\ pout[1].result.entry[1].CommitHash = pin.git.commit.out
                      /\ pout[1].result.entry[1].RepositoryURL = pin.git.url.out
                 ELSE pout[1].result.err # "" /\ pout[1].result.entry = <<>>

\* the pointer, HEAD and the reference were read and the config has an include: the fast
\* path failed at its last step and the entry came from git
C17_Witness ==
    /\ Returns("extractWorktreeInfoWithFallback")
    /\ ~PointerFails /\ ~HeadFails /\ ~RefFails /\ pin.head.form = "ref" /\ ConfigFails
    /\ pout[1].fast.err = "config includes external files"
    /\ pout[1].result.entry # <<>>

\* the paths of the items that have vanished: candidates of the base directory whose
\* extraction finds nothing there any more, and listed repositories that are gone
VanishedPaths ==
    {PathOf(n) : n \in {m \in Nodes : tree[m].x = "gone" /\ tree[m].git # "absent"}}
    \cup {RepoPath(repos[i]) : i \in {j \in DOMAIN repos : repoState[repos[j]] = "gone"}}

\* C20: an item that fails because its path no longer exists is left out without a warning;
\* warnings name only paths that failed in another way. The callers decide with
\* os.IsNotExist, so this asks that the error of extractMainRepoInfo, and of the extraction
\* of a candidate, for a vanished path is one that os.IsNotExist recognises.
C20_VanishedItemsAreSilent == \A w \in warned : w.path \notin VanishedPaths

\* the environment variable of pin is a positive integer, and its value
EnvPositive ==
    /\ pin.env.form = "number" /\ pin.env.sign # <<"-">>
    /\ \E i \in DOMAIN pin.env.text : pin.env.text[i] # "0"
EnvValue == DigitsValue(pin.env.text)

TextsOf(e) ==
    {Lower(e.Branch), Lower(e.Path)}
    \cup IF e.RepositoryInfo = <<>> THEN {}
         ELSE {Lower(e.RepositoryInfo[1].Repository),
               Lower(e.RepositoryInfo[1].Owner \o <<"/">> \o e.RepositoryInfo[1].Repository),
               Lower(e.RepositoryInfo[1].Owner \o <<"/">> \o e.RepositoryInfo[1].Repository
                     \o <<":">> \o e.Branch)}

\* the positions of the entries of pin that the pattern of pin matches
Matching ==
    {i \in DOMAIN pin.entries :
        \E t \in TextsOf(pin.entries[i]) : Contains(t, Lower(pin.pattern))}

\* C22: FilterGlobalWorktrees returns, in their order, exactly the entries in which the
\* lower-cased pattern occurs in the lower-cased branch, path, repository name,
\* owner/repository or owner/repository:branch (the last three with repository
\* information only); the empty pattern returns every entry; the input is not changed.
C22_FilterMatches ==
    Returns("FilterGlobalWorktrees") =>
        /\ Len(pout[1]) = Cardinality(Matching)
        /\ \A i \in Matching : pout[1][Cardinality({j \in Matching : j <= i})] = pin.entries[i]
        /\ pin.pattern = <<>> => pout[1] = pin.entries

\* a pattern that lies across the colon of owner/repository:branch kept the second of two
\* entries and dropped the first
C22_Witness ==
    /\ Returns("FilterGlobalWorktrees")
    /\ Len(pin.entries) = 2 /\ Matching = {2}
    /\ pin.pattern \in {<<":", "a">>, <<"r", ":">>}
    /\ pout[1] = <<pin.entries[2]>>

\* C23: the pipeline shuts down in this order in every interleaving: the walk ends, the
\* path queue is closed, every worker finishes, the result queue is closed, the collector
\* finishes, the call returns. So no worker sends on the closed result queue, the returned
\* list holds every successfully extracted entry exactly once, and the call that walked
\* returns, with or without an error, only after the collector has finished.
C23_ShutdownOrder ==
    /\ pathClosed => walked = Len(paths)
    /\ call = "pipeline" =>
          /\ (\E w \in workers : wpc[w] = "exited") => pathClosed
          /\ resultClosed => \A w \in workers : wpc[w] = "exited"
    /\ resultClosed => pathClosed
    /\ doneChan => resultClosed /\ resultChan = <<>> /\ cpc = "exited"
    /\ (Finished("pipeline") /\ started["pipeline"].walk) =>
          /\ doneChan
          /\ Len(out["pipeline"].entries) = Cardinality(Succeeding)
          /\ PathsOf(out["pipeline"].entries) = {PathOf(n) : n \in Succeeding}

\* a pipeline with two workers returned two entries after a third extraction had failed
C23_Witness ==
    /\ Finished("pipeline") /\ started["pipeline"].walk /\ doneChan
    /\ started["pipeline"].goroutines > 2
    /\ Len(out["pipeline"].entries) = 2
    /\ Failing # {}

\* the job indexes a worker of the pool holds, and those still in the jobs channel
HeldBy(w) == IF wpc[w] = "extract" THEN {wcur[w].idx} ELSE {}
Queued == Range(jobs)

\* no job index is in two places: in the channel twice, in the channel and with a worker,
\* or with two workers
JobsDisjoint ==
    call = "pool" =>
        /\ Cardinality(Queued) = Len(jobs)
        /\ \A w \in workers : HeldBy(w) \cap Queued = {}
        /\ \A w, v \in workers : w # v => HeldBy(w) \cap HeldBy(v) = {}

\* a step of a running call touches the shared results only this way: a slot is written
\* when empty and by the worker that holds its index, the slots are read when every
\* worker has finished, the list of the pipeline is appended to by the collector and
\* returned when the collector has closed doneChan
OwnedWrites ==
    /\ (call = "pool" /\ mpc # "idle") =>
          /\ \A i \in DOMAIN results :
                results'[i] # results[i] =>
                    results[i] = <<>> /\ \E w \in workers : HeldBy(w) = {i}
          /\ out'["pool"] # out["pool"] => \A w \in workers : wpc[w] = "exited"
    /\ (call = "pipeline" /\ mpc # "idle") =>
          /\ entries' # entries =>
                cpc = "recv" /\ resultChan # <<>> /\ entries' = Append(entries, Head(resultChan))
          /\ out'["pipeline"] # out["pipeline"] => doneChan /\ out'["pipeline"].entries = entries

\* C24: the results are gathered without a data race in every interleaving. In the worker
\* pool a job index is with one worker at most, a slot is written once at most and by the
\* worker that holds its index, and the slots are read after every worker has finished; in
\* the pipeline only the collector writes the list and the caller reads it after the
\* collector has signalled that it is done.
C24_NoDataRace == []JobsDisjoint /\ [][OwnedWrites]_vars

\* two workers of the pool hold different jobs at once while a slot is already written
C24_Witness ==
    /\ call = "pool"
    /\ \E w, v \in workers : w # v /\ HeldBy(w) # {} /\ HeldBy(v) # {}
    /\ \E i \in DOMAIN results : results[i] # <<>>

\* C25: whatever the number of candidates (none, or more than the 2 x N the path channel
\* holds) and whatever opts.MaxWorkers and GWQ_DISCOVERY_WORKERS are (a zero, negative or
\* non-numeric setting is ignored, so a running strategy has a worker), the worker pool and
\* the pipeline return, given that every extraction returns.
C25_Terminates ==
    /\ []((call \in {"pool", "pipeline"} /\ mpc # "idle") => workers # {})
    /\ <>(Finished("pool") /\ Finished("pipeline"))

\* a pipeline with one worker returned after more candidates than the path channel holds,
\* with a variable that is not a number
C25_Witness ==
    /\ Finished("pipeline") /\ started["pipeline"].walk
    /\ env.kind = "text" /\ opts = 1
    /\ Len(paths) > ChanCap(maxWorkers)

\* C26: the walker of the pipeline never blocks on handing a candidate to the workers:
\* whenever it is about to send, the path channel (capacity 2 x N) has room.
C26_WalkerNeverBlocks ==
    (call = "pipeline" /\ mpc = "walk" /\ walked < Len(paths)) =>
        Len(pathChan) < ChanCap(maxWorkers)

\* C27: for an entry that is loaded from its construction (built by an eager
\* strategy or from the repository index), EnsureLoaded() starts no
\* extraction, returns no error and leaves every field as it was
C27_LoadedEntryUntouched ==
    /\ [](~lazy => (loadCount = 0 /\ rets \subseteq {NoErr}))
    /\ [][~lazy => entry' = entry]_vars

\* the directories of the tree that lie above directory n
Above(n) == {a \in Nodes \ {n} : IsPrefix(PathOf(a), PathOf(n))}

\* the paths one walk has returned as candidates (the lazy discovery returns them as they are)
Candidates == PathsOf(out["lazy"].entries)

\* C28: the classifier never reports a worktree without prune; in the candidates of
\* one walk no path lies above another, and none lies beneath a main repository,
\* beneath a worktree or beneath a directory named .git; a base directory that is a
\* main repository gives no candidate, one that is a worktree gives itself only
C28_CandidatesAreLeaves ==
    (Finished("lazy") /\ baseKind = "dir") =>
        /\ \A isd \in BOOLEAN, nm \in {".git", "repo"}, g \in GitKinds :
              isWorktreeDir([isDir |-> isd, name |-> nm, git |-> g]).isWorktree =>
                  isWorktreeDir([isDir |-> isd, name |-> nm, git |-> g]).skipDir
        /\ \A p \in Candidates, q \in Candidates : p # q => ~IsPrefix(p, q)
        /\ \A n \in Nodes : PathOf(n) \in Candidates =>
              \A a \in Above(n) :
                  /\ tree[a].git # "dir"
                  /\ ~isWorktreeDir(DirEntryOf(a)).isWorktree
                  /\ DirEntryOf(a).name # ".git"
        /\ tree[1].git = "dir" => out["lazy"].entries = <<>>
        /\ isWorktreeDir(DirEntryOf(1)).isWorktree =>
              /\ Len(out["lazy"].entries) = 1
              /\ Candidates = {BasePath}

\* a walk that found a worktree with another worktree inside it, and a main
\* repository with a worktree inside it
C28_Witness ==
    /\ Finished("lazy") /\ baseKind = "dir"
    /\ \E n \in Nodes, m \in Nodes :
          /\ PathOf(n) \in Candidates
          /\ n \in Above(m)
          /\ tree[m].git = "file_gitdir"
          /\ PathOf(m) \notin Candidates
    /\ \E n \in Nodes, m \in Nodes :
          /\ tree[n].git = "dir"
          /\ n \in Above(m)
          /\ tree[m].git = "file_gitdir"

\* two entries agree on the attributes an entry has besides its path
SameAttributes(a, b) ==
    /\ a.Branch = b.Branch
    /\ a.CommitHash = b.CommitHash
    /\ a.IsMain = b.IsMain
    /\ a.RepositoryURL = b.RepositoryURL
    /\ a.RepositoryInfo = b.RepositoryInfo
    /\ a.DisplayPath = b.DisplayPath

\* C29: on one filesystem snapshot the entry the serial strategy returns for a path
\* and the entries the worker pool and the pipeline return for that path agree on
\* branch, commitHash, isMain, repositoryURL, repositoryInfo and displayPath
C29_StrategiesAgreeOnAttributes ==
    (Finished("serial") /\ Finished("pool") /\ Finished("pipeline")) =>
        \A c \in {"pool", "pipeline"} :
            \A i \in DOMAIN out["serial"].entries, j \in DOMAIN out[c].entries :
                out["serial"].entries[i].Path = out[c].entries[j].Path =>
                    SameAttributes(out["serial"].entries[i], out[c].entries[j])

\* the worktree directories the walk reaches: nothing above them is pruned
WalkReaches ==
    {n \in Nodes : /\ isWorktreeDir(DirEntryOf(n)).isWorktree
                   /\ \A a \in Above(n) : ~isWorktreeDir(DirEntryOf(a)).skipDir}

\* eager extraction at path p
EagerAt(p) == extractWorktreeInfoWithFallback(tree[NodeAt(p)].x)

\* C30: on one filesystem snapshot the lazy discovery returns the walk's whole
\* candidate set, each eager strategy returns those of these paths whose extraction
\* succeeds, and EnsureLoaded() on a lazy entry succeeds exactly when the eager
\* extraction of its path does, leaving the branch, commitHash, repositoryURL and
\* repositoryInfo of the eager entry
C30_LazyMatchesEager ==
    /\ Finished("lazy") =>
          /\ PathsOf(out["lazy"].entries) = {PathOf(n) : n \in WalkReaches}
          /\ Len(out["lazy"].entries) = Cardinality(WalkReaches)
    /\ \A c \in {"serial", "pool", "pipeline"} :
          (Finished("lazy") /\ Finished(c)) =>
              PathsOf(out[c].entries)
                = {p \in PathsOf(out["lazy"].entries) : EagerAt(p).err = NoErr}
    /\ (entry.Path # <<>> /\ onceDone) =>
          /\ (entry.loadErr = NoErr) <=> (EagerAt(entry.Path).err = NoErr)
          /\ entry.loaded <=> (EagerAt(entry.Path).err = NoErr)
          /\ \A c \in Callers : ret[c] # "none" => ret[c] = entry.loadErr
          /\ \A c \in {"serial", "pool", "pipeline"} :
                \A i \in DOMAIN out[c].entries :
                    out[c].entries[i].Path = entry.Path =>
                        /\ entry.Branch = out[c].entries[i].Branch
                        /\ entry.CommitHash = out[c].entries[i].CommitHash
                        /\ entry.RepositoryURL = out[c].entries[i].RepositoryURL
                        /\ entry.RepositoryInfo = out[c].entries[i].RepositoryInfo

\* EnsureLoaded() has returned success for a lazy entry that only git answers for,
\* next to a candidate whose extraction fails
C30_Witness ==
    /\ entry.Path # <<>> /\ onceDone
    /\ fs = "wt_git"
    /\ ret[1] = NoErr
    /\ entry.Branch = "feature"
    /\ \E i \in DOMAIN out["pipeline"].entries : out["pipeline"].entries[i].Path = entry.Path
    /\ Len(out["lazy"].entries) > Len(out["serial"].entries)

====
